---------------------------- MODULE Spec2Model ----------------------------
(***************************************************************************)
(* The research pipeline of swarm: ResearchAssistant (search, extraction   *)
(* with deep retry, per-source analysis with escalation, synthesis), its   *)
(* components ContentExtractor and ContentAnalyzer, and the command-line   *)
(* EnhancedResearchAssistant.  The search, browser and text-generation     *)
(* services are collaborators: each call returns or raises, chosen         *)
(* nondeterministically.                                                   *)
(*                                                                         *)
(* Numbers.  A relevance score is kept as thirtieths of a point            *)
(* (Pts(10) is 1.0, Pts(100) is the cap 10.0), which makes the score of    *)
(* analyzer.py:219 an integer for every query of 1..6 terms.               *)
(* Strings.  A text is [id, len]: which text it is and its length in       *)
(* characters; text[:k] keeps the id and cuts the length.                  *)
(***************************************************************************)
EXTENDS Integers, Sequences, FiniteSets, TLC

VARIABLES
    cfg,              \* config.research (ResearchConfig), fixed for a run
    env,              \* what the collaborators may return in this run
    args,             \* how the session was set up: max_sources, include_images,
                      \* and whether the extractor and the formatter are
                      \* constructed with the arguments their signatures ask for
    pc,               \* where the session is
    searchCalls,      \* calls made to search.search
    returned,         \* what the search collaborator returned (None before)
    search_results,   \* research_data["search_results"]
    raised,           \* the exception that left conduct_research, or "none"
    srcIdx,           \* extraction loop: index of the source being extracted
    attempt,          \* extract_with_retry: attempts finished in the running call
    firstData,        \* content_data of attempt 1 of the running call, or None
    sessionActive,    \* browser._session_active
    navCalls,         \* browser.navigate_to_url calls of the running extract_with_retry
    extractCalls,     \* browser.extract_page_content calls of that call
    extractLog,       \* per finished extract_with_retry call: what it did and returned
    pending,          \* content_data waiting for image extraction, or None
    prepared,         \* prepared_sources
    images_found,     \* number of images in research_data["images_found"]
    imageLog,         \* per extract_images call: the page, whether it failed inside, the images returned
    anIdx,            \* analyze_sources: index of the source being analyzed
    analysis,         \* `analysis` after the first pass when a second follows, or None
    processed,        \* processed_sources of analyze_sources
    anLog,            \* per analyzed source: the passes that were run for it
    llmCalls,         \* calls made to the text-generation service
    analysis_results, \* research_data["analysis_results"]
    final_summary,    \* research_data["final_summary"]
    analyzed_sources, \* EnhancedResearchAssistant: research_data['analyzed_sources']
    key_findings,     \* EnhancedResearchAssistant: key_findings of phase 3
    themesLeft,       \* EnhancedResearchAssistant: themes of phase 3 still to summarise, -1 before
    synthLog,         \* the final-summary calls made: the prompt sent, and whether the call raised
    report,           \* the markdown report generated from the session's data (None before)
    config,           \* the Config constructed, ValidationError, or None before
    server,           \* the SwarmMCPServer constructed from config (None before)
    toolResult,       \* what the last tool call of the server returned (None before)
    shown,            \* the statistics display_results printed (None before)
    passage,          \* a content, a query and a summary given to the analyzer's text functions
    measured,         \* what those functions returned for `passage` (None before)
    session,          \* a BrowserSession: its handles, _session_active, the call in progress
    sessionLog        \* the start and close calls finished on `session`

inputVars   == << cfg, env, args >>
searchVars  == << searchCalls, returned, search_results, raised >>
browserVars == << sessionActive, navCalls, extractCalls >>
extractVars == << srcIdx, attempt, firstData, extractLog, pending, prepared, images_found,
                 imageLog >>
analyzeVars == << anIdx, analysis, processed, anLog, analysis_results >>
synthVars   == << final_summary, synthLog, report >>
enhancedVars == << analyzed_sources, key_findings, themesLeft >>
serverVars  == << config, server, toolResult >>
componentVars == << shown, passage, measured, session, sessionLog >>

vars == << inputVars, pc, searchVars, browserVars, extractVars, analyzeVars,
           llmCalls, synthVars, enhancedVars, serverVars, componentVars >>

None == [none |-> TRUE]

Min(a, b) == IF a < b THEN a ELSE b
Max(a, b) == IF a > b THEN a ELSE b

\* A score or threshold given in tenths of a point, in the model's unit.
Pts(tenths) == 3 * tenths

----------------------------------------------------------------------------
(* Bounds of the model *)

\* Longest list the search collaborator returns.
MaxResults == 2
\* Largest number of distinct non-empty urls.
MaxUrl == 2

----------------------------------------------------------------------------
(* Configuration *)

\* ResearchConfig: every field is overridable within its pydantic constraint.
\* max_retry_attempts >= 0, min_word_count > 0, relevance_threshold >= 0.0,
\* content_limit > 0, deep_content_limit > 0, max_sources > 0.
ResearchConfig(mra, mwc, thr, ms) ==
    [ max_retry_attempts |-> mra, min_word_count |-> mwc,
      relevance_threshold |-> thr, max_sources |-> ms,
      content_limit |-> 4096, deep_content_limit |-> 8192 ]

DefaultConfig == ResearchConfig(2, 300, Pts(50), 8)


----------------------------------------------------------------------------
(* Data *)

\* What the search collaborator returns per result: url and title, 0 standing
\* for a missing or empty string (falsy under result.get(...)).
SearchResult(urls, titles) == [url : urls, title : titles]

\* The title of a result as a text: title 1 is a short one, title 2 is longer
\* than the 50 characters the reports keep of a title.
TitleText(source) == [id |-> <<"title", source.url, source.title>>,
                      len |-> IF source.title = 1 THEN 30 ELSE 80]

RECURSIVE SeqsUpTo(_, _)
SeqsUpTo(S, n) ==
    IF n = 0 THEN { <<>> }
    ELSE LET shorter == SeqsUpTo(S, n - 1)
         IN  shorter \cup { Append(q, x) : q \in { r \in shorter : Len(r) = n - 1 }, x \in S }

\* A page text as the code reads it: its length in characters, its number of
\* whitespace-separated words (len(content.split())), how many of the query's
\* terms are among its words, and the themes _extract_themes finds in it.  The
\* texts of the model start with the query terms they hold, and every word
\* takes six characters with its separator; a text of one space is non-empty
\* and has no words, the empty text is falsy.
PageText(wc, hits) ==
    [chars |-> 6 * wc + 1, wc |-> wc, hits |-> hits,
     themes |-> IF wc >= 100 THEN <<"Solar">> ELSE <<>>]

EmptyText == [chars |-> 0, wc |-> 0, hits |-> 0, themes |-> <<>>]

\* A text of few, long words (45 characters each with the separator): 9001
\* characters, more than the default deep_content_limit, in 200 words.
LongWordsText(hits) ==
    [chars |-> 45 * 200 + 1, wc |-> 200, hits |-> hits, themes |-> <<"Solar">>]

\* Number of distinct whitespace-separated terms of the query
\* ("renewable energy").
QueryTerms == 2

\* A generated text: which text and how long (characters).
Text(id, len) == [id |-> id, len |-> len]

\* text[:k]
Prefix(t, k) == [t EXCEPT !.len = Min(t.len, k)]

----------------------------------------------------------------------------
(* Phase 1: ResearchAssistant._search_phase *)

\* What the search collaborator answered when it raised instead of returning
\* a list.
SearchError == [error |-> TRUE]

RECURSIVE FilterValid(_, _, _)
\* The loop of assistant.py:115-120 over results[i..], `seen` being seen_urls.
FilterValid(results, i, seen) ==
    IF i > Len(results) THEN <<>>
    ELSE IF results[i].url # 0 /\ results[i].url \notin seen
         THEN <<results[i]>> \o FilterValid(results, i + 1, seen \cup {results[i].url})
         ELSE FilterValid(results, i + 1, seen)

\* search(query)[:max_sources]
Truncate(results, n) == SubSeq(results, 1, Min(Len(results), n))

\* A search phase that filters the whole list and cuts it afterwards.
ValidResultsFilteredFirst(results, max_sources) ==
    Truncate(FilterValid(results, 1, {}), max_sources)

\* assistant.py:112-120: the list is cut to max_sources, then filtered.
ValidResults(results, max_sources) == FilterValid(Truncate(results, max_sources), 1, {})

\* conduct_research as written (assistant.py:54): ResearchFormatter(query)
\* leaves out the `config` argument of ResearchFormatter.__init__
\* (formatter.py:24), so the call raises TypeError before the search.
FormatterUnbound ==
    /\ pc = "search"
    /\ ~args.formatter_bound
    /\ raised' = "formatter"
    /\ pc' = "raised"
    /\ UNCHANGED << inputVars, componentVars, serverVars, searchCalls, returned, search_results, browserVars,
                    extractVars, analyzeVars, llmCalls, synthVars, enhancedVars >>

\* The search collaborator returns a list; conduct_research goes on to the
\* analysis phase only if a result is left (assistant.py:95).
SearchReturns ==
    /\ pc = "search"
    /\ args.formatter_bound
    /\ \E results \in env.lists :
          /\ returned' = [list |-> results]
          /\ search_results' = ValidResults(results, args.max_sources)
    /\ searchCalls' = searchCalls + 1
    /\ pc' = IF search_results' # <<>> THEN "extract" ELSE "done"
    /\ UNCHANGED << inputVars, componentVars, serverVars, raised, browserVars, extractVars, analyzeVars,
                    llmCalls, synthVars, enhancedVars >>

\* The search collaborator raises: assistant.py:128-131 re-raises, and the
\* exception leaves conduct_research.
SearchRaises ==
    /\ pc = "search"
    /\ args.formatter_bound
    /\ searchCalls' = searchCalls + 1
    /\ returned' = SearchError
    /\ raised' = "search"
    /\ pc' = "raised"
    /\ UNCHANGED << inputVars, componentVars, serverVars, search_results, browserVars, extractVars,
                    analyzeVars, llmCalls, synthVars, enhancedVars >>

----------------------------------------------------------------------------
(* Phase 2a: ContentExtractor *)

\* Where a failure is caught and turned into a degraded result: the extractor
\* (extractor.py:79-82, and assistant.py:169-172 around the call), the image
\* processor (image_processor.py:71-74), _analyze_source (analyzer.py:191-201)
\* and generate_final_summary (analyzer.py:309-311).  The search phase catches
\* and re-raises (assistant.py:128-131).
\* Handlers without the one of _analyze_source.
CaughtExceptAnalysis(site) == site \in {"extraction", "images", "synthesis"}

\* Handlers without the one of extract_images.
CaughtExceptImages(site) == site \in {"extraction", "analysis", "synthesis"}

Caught(site) == site \in {"extraction", "images", "analysis", "synthesis"}

\* What the browser collaborator does during one extract_source_content:
\* start_session (called only when no session is active) succeeds or raises,
\* navigate_to_url returns success or an error status or raises, and
\* extract_page_content returns a text, an empty text, an error status or raises.
BrowserSteps == {"nav_raise", "nav_error", "ext_raise", "ext_error", "ext_empty", "ext_ok"}

BrowserBehaviours(contents) ==
    [startOk : BOOLEAN, step : BrowserSteps \ {"ext_ok"}, content : {None}]
    \cup [startOk : BOOLEAN, step : {"ext_ok"}, content : contents]

\* The behaviours of the browser a run explores: env.steps and env.contents.
BrowserBehavioursOf(e) ==
    { b \in BrowserBehaviours(e.contents) : b.step \in e.steps }

\* Whether the browser raised during the extract_source_content.
BrowserRaised(active, b) ==
    \/ ~active /\ ~b.startOk
    \/ b.step \in {"nav_raise", "ext_raise"}

\* An extraction that takes an empty page text for content.
ExtractSourceContentKeepsEmpty(source, deep, active, b) ==
    IF ~active /\ ~b.startOk
    THEN [data |-> None, active |-> FALSE, navs |-> 0, exts |-> 0]
    ELSE IF b.step \in {"nav_raise", "nav_error"}
    THEN [data |-> None, active |-> TRUE, navs |-> 1, exts |-> 0]
    ELSE IF b.step \in {"ext_raise", "ext_error"}
    THEN [data |-> None, active |-> TRUE, navs |-> 1, exts |-> 1]
    ELSE [data |-> [title |-> source.title, url |-> source.url,
                    content |-> IF b.step = "ext_empty" THEN EmptyText ELSE b.content,
                    word_count |-> IF b.step = "ext_empty" THEN 0 ELSE b.content.wc,
                    extraction_depth |-> IF deep THEN "deep" ELSE "normal"],
          active |-> TRUE, navs |-> 1, exts |-> 1]

\* extract_source_content (extractor.py:20-82) under browser behaviour b:
\* the content data or None, the browser's session flag afterwards, and the
\* navigate and extract calls it made.
ExtractSourceContent(source, deep, active, b) ==
    IF ~active /\ ~b.startOk
    THEN [data |-> None, active |-> FALSE, navs |-> 0, exts |-> 0]
    ELSE IF b.step \in {"nav_raise", "nav_error"}
    THEN [data |-> None, active |-> TRUE, navs |-> 1, exts |-> 0]
    ELSE IF b.step \in {"ext_raise", "ext_error", "ext_empty"}
    THEN [data |-> None, active |-> TRUE, navs |-> 1, exts |-> 1]
    ELSE [data |-> [title |-> source.title, url |-> source.url,
                    content |-> b.content, word_count |-> b.content.wc,
                    extraction_depth |-> IF deep THEN "deep" ELSE "normal"],
          active |-> TRUE, navs |-> 1, exts |-> 1]

\* extractor.py:106-111
MaxLength(n) == IF n = 1 THEN cfg.content_limit ELSE cfg.deep_content_limit
DeepExtraction(n) == n # 1

\* A retry decision that forgets the attempt limit.
RetriesDeeperUnlimited(n, data) ==
    /\ data.word_count < cfg.min_word_count
    /\ ~DeepExtraction(n)

\* A retry decision that does not look at the word count.
RetriesDeeperAnyLength(n, data) ==
    /\ n < cfg.max_retry_attempts
    /\ ~DeepExtraction(n)

\* A retry decision that looks at the word count only.
RetriesDeeperUncounted(n, data) ==
    data.word_count < cfg.min_word_count

\* extractor.py:127-129: retry with the deep budget?
RetriesDeeper(n, data) ==
    /\ n < cfg.max_retry_attempts
    /\ data.word_count < cfg.min_word_count
    /\ ~DeepExtraction(n)

\* The record kept of a finished extract_with_retry call: what it returned,
\* what its first attempt extracted, the attempts and browser calls it made,
\* whether its last attempt ended in an exception, what the browser did in that
\* attempt, and the parameters extract_source_content was called with at each
\* attempt (extractor.py:106-119).
CallRecord(source, result, first, attempts, navs, exts, failed, step) ==
    [url |-> source.url, result |-> result, first |-> first,
     attempts |-> attempts, navs |-> navs, exts |-> exts, raised |-> failed,
     step |-> step,
     requests |-> [k \in 1..attempts |->
                      [max_length |-> MaxLength(k), deep_extraction |-> DeepExtraction(k)]]]

\* A loop body that puts each extracted source in front of the list.
AfterExtractionPrepends(data) ==
    IF data = None
    THEN /\ srcIdx' = srcIdx + 1
         /\ UNCHANGED << pending, prepared >>
    ELSE IF args.include_images
    THEN /\ pending' = data
         /\ UNCHANGED << srcIdx, prepared >>
    ELSE /\ prepared' = <<data>> \o prepared
         /\ srcIdx' = srcIdx + 1
         /\ UNCHANGED pending

\* A loop body that keeps only the sources extracted at the first attempt.
AfterExtractionFirstAttemptOnly(data) ==
    IF data = None \/ data.extraction_depth = "deep"
    THEN /\ srcIdx' = srcIdx + 1
         /\ UNCHANGED << pending, prepared >>
    ELSE IF args.include_images
    THEN /\ pending' = data
         /\ UNCHANGED << srcIdx, prepared >>
    ELSE /\ prepared' = Append(prepared, data)
         /\ srcIdx' = srcIdx + 1
         /\ UNCHANGED pending

\* assistant.py:159-167 once extract_with_retry has returned `data`: a dropped
\* source, or a source handed to image extraction or straight to the list.
AfterExtraction(data) ==
    IF data = None
    THEN /\ srcIdx' = srcIdx + 1
         /\ UNCHANGED << pending, prepared >>
    ELSE IF args.include_images
    THEN /\ pending' = data
         /\ UNCHANGED << srcIdx, prepared >>
    ELSE /\ prepared' = Append(prepared, data)
         /\ srcIdx' = srcIdx + 1
         /\ UNCHANGED pending

\* The recursion depth of extract_with_retry the model follows; the code's
\* own conditions keep the attempt number at 2 or below.
AttemptCap == 4

\* One attempt of extract_with_retry (extractor.py:84-142) for the source the
\* loop of assistant.py:144 is at: it ends the call with None, recurses into
\* the deep attempt, or ends the call with the content data.
ExtractAttempt ==
    /\ pc = "extract"
    /\ args.extractor_bound
    /\ srcIdx <= Len(search_results)
    /\ pending = None
    /\ attempt < AttemptCap
    /\ LET source == search_results[srcIdx]
           n == attempt + 1
       IN \E b \in BrowserBehavioursOf(env) :
            LET r == ExtractSourceContent(source, DeepExtraction(n), sessionActive, b)
                navs == navCalls + r.navs
                exts == extractCalls + r.exts
                first == IF n = 1 THEN r.data ELSE firstData
            IN /\ r.data # None => r.data.content.chars <= MaxLength(n) + 3
               /\ sessionActive' = r.active
               /\ IF BrowserRaised(sessionActive, b) /\ ~Caught("extraction")
                  THEN /\ raised' = "extraction"
                       /\ pc' = "raised"
                       /\ UNCHANGED << attempt, firstData, navCalls, extractCalls,
                                       srcIdx, extractLog, pending, prepared >>
                  ELSE IF r.data # None /\ RetriesDeeper(n, r.data)
                  THEN /\ attempt' = n
                       /\ firstData' = first
                       /\ navCalls' = navs
                       /\ extractCalls' = exts
                       /\ UNCHANGED << raised, pc, srcIdx, extractLog, pending, prepared >>
                  ELSE /\ attempt' = 0
                       /\ firstData' = None
                       /\ navCalls' = 0
                       /\ extractCalls' = 0
                       /\ extractLog' = Append(extractLog,
                               CallRecord(source, r.data, first, n, navs, exts,
                                          BrowserRaised(sessionActive, b),
                                          IF ~sessionActive /\ ~b.startOk
                                          THEN "start_raise" ELSE b.step))
                       /\ AfterExtraction(r.data)
                       /\ UNCHANGED << raised, pc >>
    /\ UNCHANGED << inputVars, componentVars, serverVars, searchCalls, returned, search_results, images_found, imageLog,
                    analyzeVars, llmCalls, synthVars, enhancedVars >>

\* The extractor as ResearchAssistant.__init__ builds and calls it
\* (assistant.py:33, 155-157): ContentExtractor(verbose) has no browser, and
\* extract_with_retry is called without its `config` argument, so the call
\* raises TypeError before any browser call; assistant.py:169-172 drops the source.
ExtractUnbound ==
    /\ pc = "extract"
    /\ ~args.extractor_bound
    /\ srcIdx <= Len(search_results)
    /\ extractLog' = Append(extractLog,
            CallRecord(search_results[srcIdx], None, None, 0, 0, 0, TRUE, "type_error"))
    /\ srcIdx' = srcIdx + 1
    /\ UNCHANGED << inputVars, componentVars, serverVars, pc, searchVars, browserVars, attempt, firstData,
                    pending, prepared, images_found, imageLog, analyzeVars, llmCalls, synthVars, enhancedVars >>

\* What happens inside ImageProcessor.extract_images: a failure, or a list of
\* 0..5 images (image_processor.py:22-74).
ImageBehaviours ==
    [raises : {TRUE}, found : {0}] \cup [raises : {FALSE}, found : {0, 1, 5}]

\* ImageProcessor.extract_images for the page of the pending source: it
\* catches every failure and returns a list of 0..5 images; the source joins
\* prepared_sources whatever the list is (assistant.py:161-167).
ExtractImages ==
    /\ pc = "extract"
    /\ pending # None
    /\ \E b \in env.images :
          IF b.raises /\ ~Caught("images")
          THEN /\ raised' = "images"
               /\ pc' = "raised"
               /\ UNCHANGED << images_found, imageLog, prepared, pending, srcIdx >>
          ELSE /\ images_found' = images_found + b.found
               /\ imageLog' = Append(imageLog,
                     [url |-> pending.url, raised |-> b.raises, found |-> b.found])
               /\ prepared' = Append(prepared, pending)
               /\ pending' = None
               /\ srcIdx' = srcIdx + 1
               /\ UNCHANGED << raised, pc >>
    /\ UNCHANGED << inputVars, componentVars, serverVars, searchCalls, returned, search_results, browserVars,
                    attempt, firstData, extractLog, analyzeVars, llmCalls, synthVars,
                    enhancedVars >>

----------------------------------------------------------------------------
(* Phase 2b: ContentAnalyzer *)

\* The fixed texts of the failure paths.
AnalysisFailed == Text("Analysis failed", 15)
UnableToExtract == Text("Unable to extract content", 25)

\* Key findings the text-generation service returns (after strip()).
FindingTexts == {Text("finding A", 40), Text("finding B", 200)}

\* What the text-generation service does during one _analyze_source: the
\* summary call raises; or it returns a summary holding `hits` of the query's
\* terms and the key-finding call raises or returns a finding.
LlmBehaviours ==
    [kind : {"summary_raises"}, hits : {0}, finding : {AnalysisFailed}]
    \cup [kind : {"finding_raises"}, hits : {0, QueryTerms}, finding : {AnalysisFailed}]
    \cup [kind : {"ok"}, hits : {0, QueryTerms}, finding : FindingTexts]

\* A count for an analysis that sends a third prompt, for the themes.
LlmCallsOfThreePrompts(content, b) ==
    IF content.chars = 0 THEN 0
    ELSE IF b.kind = "summary_raises" THEN 1
    ELSE IF b.kind = "finding_raises" THEN 2 ELSE 3

\* A count for an analysis that asks the service whatever the content.
LlmCallsOfAnyContent(content, b) ==
    IF b.kind = "summary_raises" THEN 1 ELSE 2

\* Calls _analyze_source makes to the service (analyzer.py:118-127, 142-173):
\* none for an empty content, else the summary call and, if that returned,
\* the key-finding call.
LlmCallsOf(content, b) ==
    IF content.chars = 0 THEN 0
    ELSE IF b.kind = "summary_raises" THEN 1 ELSE 2

\* The weighted sum without the cap.
RelevanceScoreUncapped(content, queryTerms, summaryHits) ==
    LET overlaps == IF queryTerms = 0 THEN 0
                    ELSE (1200 * content.hits + 1200 * summaryHits) \div queryTerms
        quality == 6 * Min(content.wc, 100)
    IN  overlaps + quality

\* _calculate_relevance_score (analyzer.py:203-221), in thirtieths of a point:
\* (content_overlap * 4 + summary_overlap * 4 + content_quality * 2) * 10,
\* capped at 10.0.
RelevanceScore(content, queryTerms, summaryHits) ==
    LET overlaps == IF queryTerms = 0 THEN 0
                    ELSE (1200 * content.hits + 1200 * summaryHits) \div queryTerms
        quality == 6 * Min(content.wc, 100)
    IN  Min(overlaps + quality, Pts(100))

\* An analysis whose failure path scores 0.0, like the no-content path.
AnalyzeSourceZeroOnFailure(source, method, b) ==
    LET content == source.content
    IN  IF content.chars = 0
        THEN [summary |-> [kind |-> "no_content", hits |-> 0],
              relevance_score |-> 0, key_finding |-> UnableToExtract,
              themes |-> <<>>, word_count |-> 0,
              extraction_method |-> "normal", analysis_method |-> method]
        ELSE IF b.kind = "ok"
        THEN [summary |-> [kind |-> "generated", hits |-> b.hits],
              relevance_score |-> RelevanceScore(content, args.query_terms, b.hits),
              key_finding |-> b.finding,
              themes |-> content.themes, word_count |-> content.wc,
              extraction_method |-> "normal", analysis_method |-> method]
        ELSE [summary |-> [kind |-> "error", hits |-> 0],
              relevance_score |-> 0, key_finding |-> AnalysisFailed,
              themes |-> <<>>, word_count |-> content.wc,
              extraction_method |-> "normal", analysis_method |-> method]

\* _analyze_source (analyzer.py:112-201) on `source` with the text-generation
\* service behaving as b.
AnalyzeSource(source, method, b) ==
    LET content == source.content
    IN  IF content.chars = 0
        THEN [summary |-> [kind |-> "no_content", hits |-> 0],
              relevance_score |-> 0, key_finding |-> UnableToExtract,
              themes |-> <<>>, word_count |-> 0,
              extraction_method |-> "normal", analysis_method |-> method]
        ELSE IF b.kind = "ok"
        THEN [summary |-> [kind |-> "generated", hits |-> b.hits],
              relevance_score |-> RelevanceScore(content, args.query_terms, b.hits),
              key_finding |-> b.finding,
              themes |-> content.themes, word_count |-> content.wc,
              extraction_method |-> "normal", analysis_method |-> method]
        ELSE [summary |-> [kind |-> "error", hits |-> 0],
              relevance_score |-> Pts(10), key_finding |-> AnalysisFailed,
              themes |-> <<>>, word_count |-> content.wc,
              extraction_method |-> "normal", analysis_method |-> method]

\* content[:limit] + "..." for a text longer than limit: the words that
\* start within the first `limit` characters are left.
TruncateContent(content, limit) ==
    LET words == Min(content.wc, (limit * content.wc) \div content.chars + 1)
    IN  [chars |-> limit + 3, wc |-> words,
         hits |-> Min(content.hits, words), themes |-> content.themes]

\* _extract_deep_content (analyzer.py:100-110): the text the source already
\* has, cut to deep_content_limit; None for an empty text.
ExtractDeepContent(source) ==
    LET content == source.content
        cut == IF content.chars > cfg.deep_content_limit
               THEN TruncateContent(content, cfg.deep_content_limit)
               ELSE content
    IN  IF cut.chars = 0 THEN None ELSE cut

\* An escalation decision that does not look at max_retry_attempts.
EscalationWithoutBudget(source, a) ==
    IF a.word_count < cfg.min_word_count
    THEN IF ExtractDeepContent(source) # None THEN "deep" ELSE "none"
    ELSE IF a.relevance_score < cfg.relevance_threshold THEN "relevance"
    ELSE "none"

\* analyzer.py:77-96: which second pass follows the first analysis `a` of
\* `source`: "deep" (word-count-driven, with a deeper text), "relevance"
\* (enhanced analysis of the same text) or "none".
Escalation(source, a) ==
    LET needs_enhancement ==
            \/ a.relevance_score < cfg.relevance_threshold
            \/ a.word_count < cfg.min_word_count
    IN  IF ~(needs_enhancement /\ cfg.max_retry_attempts > 0) THEN "none"
        ELSE IF a.word_count < cfg.min_word_count
             THEN IF ExtractDeepContent(source) # None THEN "deep" ELSE "none"
        ELSE IF a.relevance_score < cfg.relevance_threshold THEN "relevance"
        ELSE "none"

\* The record kept of the analysis of one source: the source as it was given
\* to analyze_sources, the passes made and their results.
SourceRecord(source, first, escalation, second, firstRaised, secondRaised, calls) ==
    [url |-> source.url, content |-> source.content,
     word_count |-> source.word_count, depth |-> source.extraction_depth,
     first |-> first, escalation |-> escalation, second |-> second,
     firstRaised |-> firstRaised, secondRaised |-> secondRaised, calls |-> calls]

\* The first pass of _analyze_source_with_intelligence (analyzer.py:70-98) for
\* the source analyze_sources is at, and the escalation decision: the analysis
\* is appended to processed_sources, or a second pass follows (for the
\* word-count-driven one the source's text is replaced, analyzer.py:88).
AnalyzeFirstPass ==
    /\ pc = "analyze"
    /\ anIdx <= Len(prepared)
    /\ analysis = None
    /\ LET source == prepared[anIdx]
       IN \E b \in env.llm :
            LET a == AnalyzeSource(source, "normal", b)
                calls == LlmCallsOf(source.content, b)
                failed == source.content.chars # 0 /\ b.kind # "ok"
                esc == Escalation(source, a)
            IN /\ llmCalls' = llmCalls + calls
               /\ IF failed /\ ~Caught("analysis")
                  THEN /\ raised' = "analysis"
                       /\ pc' = "raised"
                       /\ UNCHANGED << prepared, analysis, processed, anLog, anIdx >>
                  ELSE /\ UNCHANGED << raised, pc >>
                       /\ IF esc = "none"
                          THEN /\ processed' = Append(processed, a)
                               /\ anLog' = Append(anLog,
                                     SourceRecord(source, a, esc, None, failed, FALSE, calls))
                               /\ anIdx' = anIdx + 1
                               /\ UNCHANGED << prepared, analysis >>
                          ELSE /\ analysis' = [first |-> a, escalation |-> esc,
                                               firstRaised |-> failed, calls |-> calls,
                                               before |-> source]
                               /\ prepared' = IF esc = "deep"
                                     THEN [prepared EXCEPT ![anIdx].content = ExtractDeepContent(source)]
                                     ELSE prepared
                               /\ UNCHANGED << processed, anLog, anIdx >>
    /\ UNCHANGED << inputVars, componentVars, serverVars, searchCalls, returned, search_results, browserVars,
                    srcIdx, attempt, firstData, extractLog, pending, images_found, imageLog,
                    analysis_results, synthVars, enhancedVars >>

\* A second analysis marked as deeply extracted whatever the escalation.
MarkEscalatedAlwaysDeep(a, escalation) ==
    [a EXCEPT !.extraction_method = "deep", !.analysis_method = "enhanced"]

\* analyzer.py:89-91 and 95-96: the methods recorded on the second analysis.
MarkEscalated(a, escalation) ==
    [a EXCEPT !.extraction_method = IF escalation = "deep" THEN "deep" ELSE @,
              !.analysis_method = "enhanced"]

\* The second, enhanced pass (analyzer.py:89-91, 95-96); its result replaces
\* the first analysis.
AnalyzeSecondPass ==
    /\ pc = "analyze"
    /\ anIdx <= Len(prepared)
    /\ analysis # None
    /\ LET source == prepared[anIdx]
       IN \E b \in env.llm :
            LET a == MarkEscalated(AnalyzeSource(source, "enhanced", b), analysis.escalation)
                calls == LlmCallsOf(source.content, b)
                failed == source.content.chars # 0 /\ b.kind # "ok"
            IN /\ llmCalls' = llmCalls + calls
               /\ IF failed /\ ~Caught("analysis")
                  THEN /\ raised' = "analysis"
                       /\ pc' = "raised"
                       /\ UNCHANGED << analysis, processed, anLog, anIdx >>
                  ELSE /\ UNCHANGED << raised, pc >>
                       /\ processed' = Append(processed, a)
                       /\ anLog' = Append(anLog,
                             SourceRecord(analysis.before, analysis.first, analysis.escalation,
                                          a, analysis.firstRaised, failed,
                                          analysis.calls + calls))
                       /\ analysis' = None
                       /\ anIdx' = anIdx + 1
    /\ UNCHANGED << inputVars, componentVars, serverVars, searchCalls, returned, search_results, browserVars,
                    extractVars, analysis_results, synthVars, enhancedVars >>

----------------------------------------------------------------------------
(* The phases of ResearchAssistant.conduct_research *)

\* assistant.py:176-187, 205-206: when the extraction loop is over,
\* analyze_sources is called if a source was prepared; with none,
\* analysis_results stays empty and conduct_research returns (assistant.py:99).
StartAnalysis ==
    /\ pc = "extract"
    /\ srcIdx > Len(search_results)
    /\ pc' = IF prepared # <<>> THEN "analyze" ELSE "done"
    /\ UNCHANGED << inputVars, componentVars, serverVars, searchVars, browserVars, extractVars, analyzeVars,
                    llmCalls, synthVars, enhancedVars >>

\* analyze_sources returns processed_sources (analyzer.py:68), which becomes
\* research_data["analysis_results"] (assistant.py:187); synthesis follows if
\* the list is non-empty (assistant.py:99).
AnalyzeReturn ==
    /\ pc = "analyze"
    /\ anIdx > Len(prepared)
    /\ analysis_results' = processed
    /\ pc' = IF processed # <<>> THEN "synth" ELSE "done"
    /\ UNCHANGED << inputVars, componentVars, serverVars, searchVars, browserVars, extractVars, anIdx, analysis,
                    processed, anLog, llmCalls, synthVars, enhancedVars >>

\* The task running the session is cancelled while analyze_sources awaits the
\* analysis of a source: CancelledError is no Exception, so no handler of
\* analyzer.py:191 or assistant.py:208 catches it, and it leaves
\* analyze_sources before processed_sources is returned (analyzer.py:68) and
\* stored (assistant.py:187).
CancelAnalysis ==
    /\ pc = "analyze"
    /\ anIdx <= Len(prepared)
    /\ pc' = "cancelled"
    /\ UNCHANGED << inputVars, componentVars, serverVars, searchVars, browserVars, extractVars, analyzeVars,
                    llmCalls, synthVars, enhancedVars >>

\* ResearchAssistant.cleanup (assistant.py:262-267) after the session: a
\* browser whose _session_active is true is closed.  (A browser object
\* without that attribute is left alone: no step.)
Cleanup ==
    /\ pc \in {"done", "raised"}
    /\ sessionActive
    /\ sessionActive' = FALSE
    /\ UNCHANGED << inputVars, componentVars, serverVars, pc, searchVars, navCalls, extractCalls, extractVars,
                    analyzeVars, llmCalls, synthVars, enhancedVars >>

\* A final summary: how it came about, its length, whether it carries the
\* fallback header, the statistics it states (None without), and the findings
\* it lists, each a source title and a finding text.
Summary(kind, chars, header, stats, items) ==
    [kind |-> kind, chars |-> chars, header |-> header, stats |-> stats, items |-> items]

NoSummary == Summary("empty", 0, FALSE, None, <<>>)

\* Lengths of the text the service generates for the final summary, after
\* strip(): nothing but whitespace, or a report.
GeneratedLengths == {0, 2000}

\* What the service does when asked for the final summary.
SynthBehaviours ==
    [raises : {TRUE}, chars : {0}] \cup [raises : {FALSE}, chars : GeneratedLengths]

RECURSIVE Flatten(_)
\* list.extend over a list of lists
Flatten(lists) ==
    IF lists = <<>> THEN <<>> ELSE Head(lists) \o Flatten(Tail(lists))

\* theme_counts / all_themes (analyzer.py:282-284, formatter.py:135-138): a
\* dict filled while scanning `mentions`, as the list of its items in
\* insertion order.
ThemeTable(mentions) ==
    LET firsts == SelectSeq([i \in 1..Len(mentions) |-> i],
                            LAMBDA i : \A j \in 1..(i - 1) : mentions[j] # mentions[i])
    IN  [k \in 1..Len(firsts) |->
            [name |-> mentions[firsts[k]],
             count |-> Cardinality({ i \in 1..Len(mentions) : mentions[i] = mentions[firsts[k]] })]]

RECURSIVE InsertByCount(_, _)
\* item put into the descending list after every item not counted lower
InsertByCount(sorted, item) ==
    IF sorted = <<>> THEN <<item>>
    ELSE IF item.count > Head(sorted).count
         THEN <<item>> \o sorted
         ELSE <<Head(sorted)>> \o InsertByCount(Tail(sorted), item)

RECURSIVE RankByCount(_, _)
\* sorted(items, key=lambda x: x[1], reverse=True): a stable sort
RankByCount(items, n) ==
    IF n = 0 THEN <<>> ELSE InsertByCount(RankByCount(items, n - 1), items[n])

\* top_themes of generate_final_summary (analyzer.py:276-286): the themes of
\* the analyses scoring at least 3.0, counted, ranked, the first 5.
FinalSummaryThemes(analyses) ==
    LET eligible == SelectSeq(analyses, LAMBDA a : a.relevance_score >= Pts(30))
        table == ThemeTable(Flatten([i \in 1..Len(eligible) |-> eligible[i].themes]))
    IN  Truncate(RankByCount(table, Len(table)), 5)

\* The findings generate_final_summary puts into its prompt
\* (analyzer.py:276-279, 290-292), as positions in `analyses`: those of the
\* analyses scoring at least 3.0, in the order of the list, all of them.
FinalSummaryFindings(analyses) ==
    SelectSeq([i \in 1..Len(analyses) |-> i],
              LAMBDA i : analyses[i].relevance_score >= Pts(30))

\* A summary generation that returns the empty string when the service raises.
GenerateFinalSummaryBlank(analyses, b) ==
    IF b.raises
    THEN Summary("error", 0, FALSE, None, <<>>)
    ELSE Summary("generated", b.chars, FALSE, None, <<>>)

\* generate_final_summary (analyzer.py:270-311): the stripped generated text,
\* or "Error generating summary: ..." when the service raises.
GenerateFinalSummary(analyses, b) ==
    IF b.raises
    THEN Summary("error", 26, FALSE, None, <<>>)
    ELSE Summary("generated", b.chars, FALSE, None, <<>>)

\* Phase 3: _synthesis_phase (assistant.py:213-230).
Synthesize ==
    /\ pc = "synth"
    /\ \E b \in SynthBehaviours :
          /\ synthLog' = Append(synthLog,
                [prompt |-> "full", raised |-> b.raises,
                 findings |-> FinalSummaryFindings(analysis_results),
                 themes |-> FinalSummaryThemes(analysis_results)])
          /\ IF b.raises /\ ~Caught("synthesis")
             THEN /\ raised' = "synthesis"
                  /\ pc' = "raised"
                  /\ UNCHANGED final_summary
             ELSE /\ final_summary' = GenerateFinalSummary(analysis_results, b)
                  /\ pc' = "done"
                  /\ UNCHANGED raised
    /\ llmCalls' = llmCalls + 1
    /\ UNCHANGED << inputVars, componentVars, serverVars, searchCalls, returned, search_results, browserVars,
                    extractVars, analyzeVars, enhancedVars, report >>

----------------------------------------------------------------------------
(* ResearchFormatter (research/formatter.py) *)

\* A source counted as high-relevance whatever its score from 1.0 up.
IsHighRelevanceFromOne(a) == a.relevance_score >= Pts(10)

\* The test of analyzer.py:58-60 and formatter.py:111, 132:
\* relevance_score >= relevance_threshold.
IsHighRelevance(a) == a.relevance_score >= cfg.relevance_threshold

\* high_relevance_count of formatter.py:132 (and analyzer.py:58-60)
HighRelevanceCount(analyses) ==
    Cardinality({ i \in 1..Len(analyses) : IsHighRelevance(analyses[i]) })

\* analyses.index(analysis): the first position holding an equal
\* AnalysisResult (a dataclass, compared field by field).
IndexOf(analyses, a) ==
    CHOOSE j \in 1..Len(analyses) :
        /\ analyses[j] = a
        /\ \A m \in 1..(j - 1) : analyses[m] # a

RECURSIVE Sum(_)
\* sum(...) over a list of numbers
Sum(numbers) ==
    IF numbers = <<>> THEN 0 ELSE Head(numbers) + Sum(Tail(numbers))

\* total_words of formatter.py:130
TotalWords(analyses) ==
    Sum([i \in 1..Len(analyses) |-> analyses[i].word_count])

\* An average that divides by len(analyses) whatever the list.
AverageRelevanceUnguarded(analyses) ==
    [num |-> Sum([i \in 1..Len(analyses) |-> analyses[i].relevance_score]),
     den |-> Len(analyses)]

\* avg_relevance of formatter.py:131, the quotient num/den:
\* sum(...) / len(analyses) if analyses else 0.
AverageRelevance(analyses) ==
    IF analyses # <<>>
    THEN [num |-> Sum([i \in 1..Len(analyses) |-> analyses[i].relevance_score]),
          den |-> Len(analyses)]
    ELSE [num |-> 0, den |-> 1]

\* The keys of all_themes (formatter.py:135-138): every theme of every analysis.
AllThemes(analyses) ==
    UNION { { analyses[i].themes[k] : k \in 1..Len(analyses[i].themes) } :
            i \in 1..Len(analyses) }

\* top_themes of the report (formatter.py:134-140): the themes of all the
\* analyses, counted, ranked, the first 8.
ReportThemes(analyses) ==
    LET table == ThemeTable(Flatten([i \in 1..Len(analyses) |-> analyses[i].themes]))
    IN  Truncate(RankByCount(table, Len(table)), 8)

\* _get_relevance_distribution (formatter.py:107-115): the three counts.
RelevanceDistribution(analyses) ==
    LET Count(Test(_)) == Cardinality({ i \in 1..Len(analyses) : Test(analyses[i]) })
    IN  [high |-> Count(LAMBDA a : a.relevance_score >= cfg.relevance_threshold),
         medium |-> Count(LAMBDA a : /\ Pts(30) <= a.relevance_score
                                     /\ a.relevance_score < cfg.relevance_threshold),
         low |-> Count(LAMBDA a : a.relevance_score < Pts(30))]

\* The positions of the analyses listed as key findings (formatter.py:170-173):
\* those scoring at least max(3.0, relevance_threshold - 2.0), the first 6.
KeyFindingPositions(analyses) ==
    LET Listed(i) == analyses[i].relevance_score
                        >= Max(Pts(30), cfg.relevance_threshold - Pts(20))
    IN  Truncate(SelectSeq([i \in 1..Len(analyses) |-> i], Listed), 6)

\* What a section of the report shows next to the analysis at `position`:
\* the title and url of `source`.
ReportEntry(position, source) ==
    [analysis |-> position, title |-> source.title, url |-> source.url]

\* generate_markdown_report (formatter.py:117-311) for `analyses` and
\* `sources`: the statistics (formatter.py:130-138, 154, 300-303), the key
\* findings with sources[analyses.index(analysis)] (formatter.py:175-184), and
\* the detail section and the table, both over zip(analyses, sources)
\* (formatter.py:239-289).
MarkdownReport(analyses, sources) ==
    LET listed == KeyFindingPositions(analyses)
        rows == [i \in 1..Min(Len(analyses), Len(sources)) |-> ReportEntry(i, sources[i])]
    IN  [high |-> HighRelevanceCount(analyses),
         total |-> Len(analyses),
         total_words |-> TotalWords(analyses),
         avg_relevance |-> AverageRelevance(analyses),
         unique_themes |-> Cardinality(AllThemes(analyses)),
         top_themes |-> ReportThemes(analyses),
         sources |-> Len(sources),
         findings |-> [k \in 1..Len(listed) |->
                          ReportEntry(listed[k], sources[IndexOf(analyses, analyses[listed[k]])])],
         details |-> rows,
         table |-> rows]

\* ResearchAssistant.generate_markdown_report (assistant.py:244-254) after the
\* session: the formatter is given analysis_results and search_results.
GenerateMarkdownReport ==
    /\ pc = "done"
    /\ args.formatter_bound
    /\ report = None
    /\ report' = MarkdownReport(analysis_results, search_results)
    /\ UNCHANGED << inputVars, componentVars, serverVars, pc, searchVars, browserVars, extractVars, analyzeVars,
                    llmCalls, final_summary, synthLog, enhancedVars >>

\* ResearchFormatter.generate_markdown_report called with the analyses
\* analyze_sources returned and the sources it was given.
FormatAnalyses ==
    /\ pc \in {"synth", "done"}
    /\ report = None
    /\ report' = MarkdownReport(analysis_results, prepared)
    /\ UNCHANGED << inputVars, componentVars, serverVars, pc, searchVars, browserVars, extractVars, analyzeVars,
                    llmCalls, final_summary, synthLog, enhancedVars >>

\* ResearchFormatter.display_results (formatter.py:29-56) called with the
\* analyses analyze_sources returned and the sources it was given: the
\* statistics panel.
DisplayResults ==
    /\ pc \in {"synth", "done"}
    /\ shown = None
    /\ shown' = [sources |-> Len(prepared),
                 themes |-> Cardinality(AllThemes(analysis_results)),
                 total |-> Len(analysis_results),
                 distribution |-> RelevanceDistribution(analysis_results)]
    /\ UNCHANGED << inputVars, serverVars, passage, measured, session, sessionLog, pc, searchVars,
                    browserVars, extractVars, analyzeVars, llmCalls, synthVars, enhancedVars >>

----------------------------------------------------------------------------
(* EnhancedResearchAssistant (cli/commands/research_assistant.py) *)

pipelineVars == << extractVars, analyzeVars >>

\* research_assistant.py:108-115: the results with a url and a title.
HasUrlAndTitle(result) == result.url # 0 /\ result.title # 0

EnhancedValidResults(results, max_sources) ==
    SelectSeq(Truncate(results, max_sources), HasUrlAndTitle)

\* _phase_1_web_search when the collaborator returns; with no valid result
\* conduct_comprehensive_research returns at once (research_assistant.py:73-79).
EnhancedSearchReturns ==
    /\ pc = "e_search"
    /\ \E results \in env.lists :
          /\ returned' = [list |-> results]
          /\ search_results' = EnhancedValidResults(results, args.max_sources)
    /\ searchCalls' = searchCalls + 1
    /\ pc' = IF search_results' # <<>> THEN "e_analysis" ELSE "done"
    /\ UNCHANGED << inputVars, componentVars, serverVars, raised, browserVars, pipelineVars, llmCalls,
                    synthVars, enhancedVars >>

\* _phase_1_web_search when the collaborator raises: research_assistant.py:127-130
\* prints the error and returns [], and the session returns its research_data.
EnhancedSearchRaises ==
    /\ pc = "e_search"
    /\ searchCalls' = searchCalls + 1
    /\ returned' = SearchError
    /\ pc' = "done"
    /\ UNCHANGED << inputVars, componentVars, serverVars, search_results, raised, browserVars,
                    pipelineVars, llmCalls, synthVars, enhancedVars >>

\* The helpers _generate_source_summary, _extract_key_finding, _identify_themes
\* and _generate_theme_summary (research_assistant.py:340-441) each try the
\* service up to 3 times: after `failures` raises in a row they have made
\* this many calls.
MaxRetries == 3
HelperCalls(failures) == Min(failures + 1, MaxRetries)

\* _calculate_relevance_score of the enhanced assistant
\* (research_assistant.py:443-453) orders the sources of phase 3: a has a
\* higher score than b.  The texts of the model hold each query term once.
ScoresHigher(a, b) ==
    a.content.hits * Max(b.content.wc, 1) > b.content.hits * Max(a.content.wc, 1)

\* _phase_2_source_analysis (research_assistant.py:132-196), one source: the
\* browser is started if need be, the page is fetched with max_length = 3000
\* and summarised; every failure drops the source.
EnhancedAnalyzeSource ==
    /\ pc = "e_analysis"
    /\ srcIdx <= Len(search_results)
    /\ LET source == search_results[srcIdx]
       IN \E b \in BrowserBehavioursOf(env), failures \in env.failures :
            LET r == ExtractSourceContent(source, FALSE, sessionActive, b)
            IN /\ r.data # None => r.data.content.chars <= 3000 + 3
               /\ sessionActive' = r.active
               /\ IF r.data = None
                  THEN /\ failures = 0
                       /\ UNCHANGED << analyzed_sources, llmCalls >>
                  ELSE /\ analyzed_sources' = Append(analyzed_sources,
                              [title |-> source.title, url |-> source.url,
                               content |-> r.data.content,
                               summary |-> IF failures < MaxRetries THEN "generated" ELSE "failed",
                               word_count |-> r.data.content.wc])
                       /\ llmCalls' = llmCalls + HelperCalls(failures)
    /\ srcIdx' = srcIdx + 1
    /\ pc' = IF srcIdx' > Len(search_results) THEN "e_synthesis" ELSE pc
    /\ UNCHANGED << inputVars, componentVars, serverVars, searchVars, navCalls, extractCalls, attempt,
                    firstData, extractLog, pending, prepared, images_found, imageLog,
                    analyzeVars, synthVars, key_findings, themesLeft >>

RECURSIVE InsertByScore(_, _)
\* x put into the descending list after every element not scoring lower
InsertByScore(sorted, x) ==
    IF sorted = <<>> THEN <<x>>
    ELSE IF ScoresHigher(x, Head(sorted))
         THEN <<x>> \o sorted
         ELSE <<Head(sorted)>> \o InsertByScore(Tail(sorted), x)

RECURSIVE SortByScore(_, _)
\* sorted(analyzed_sources, key=relevance_score, reverse=True): a stable sort
SortByScore(sources, n) ==
    IF n = 0 THEN <<>> ELSE InsertByScore(SortByScore(sources, n - 1), sources[n])

\* sorted_sources[:5] of research_assistant.py:204-210
TopSources == Truncate(SortByScore(analyzed_sources, Len(analyzed_sources)), 5)

KeyFindingFailed == Text("Key finding extraction failed", 60)

\* _phase_3_content_synthesis, the loop over the top sources
\* (research_assistant.py:208-218), one source: a finding is kept unless it
\* is the empty string.
EnhancedKeyFinding ==
    /\ pc = "e_synthesis"
    /\ anIdx <= Len(TopSources)
    /\ LET source == TopSources[anIdx]
       IN \E failures \in env.failures, text \in env.findings :
            LET finding == IF failures < MaxRetries THEN text ELSE KeyFindingFailed
            IN /\ llmCalls' = llmCalls + HelperCalls(failures)
               /\ key_findings' = IF finding.len = 0 THEN key_findings
                     ELSE Append(key_findings,
                            [source_title |-> TitleText(source), source_url |-> source.url,
                             finding |-> finding])
    /\ anIdx' = anIdx + 1
    /\ UNCHANGED << inputVars, componentVars, serverVars, pc, searchVars, browserVars, extractVars, analysis,
                    processed, anLog, analysis_results, synthVars, analyzed_sources,
                    themesLeft >>

\* _identify_themes (research_assistant.py:383-405): the lines of the
\* generated answer, at most 5, or the 3 default themes after 3 failures.
EnhancedIdentifyThemes ==
    /\ pc = "e_synthesis"
    /\ anIdx > Len(TopSources)
    /\ themesLeft = -1
    /\ \E failures \in env.failures, lines \in env.themes :
          /\ llmCalls' = llmCalls + HelperCalls(failures)
          /\ themesLeft' = IF failures < MaxRetries THEN Min(lines, 5) ELSE 3
    /\ pc' = IF themesLeft' = 0 THEN "e_summary" ELSE pc
    /\ UNCHANGED << inputVars, componentVars, serverVars, searchVars, browserVars, pipelineVars, synthVars,
                    analyzed_sources, key_findings >>

\* _generate_theme_summary (research_assistant.py:407-441) for the next theme:
\* no call when no finding mentions the theme, else up to 3 calls.
EnhancedThemeSummary ==
    /\ pc = "e_synthesis"
    /\ themesLeft > 0
    /\ \E mentioned \in BOOLEAN, failures \in env.failures :
          llmCalls' = llmCalls + (IF mentioned THEN HelperCalls(failures) ELSE 0)
    /\ themesLeft' = themesLeft - 1
    /\ pc' = IF themesLeft' = 0 THEN "e_summary" ELSE pc
    /\ UNCHANGED << inputVars, componentVars, serverVars, searchVars, browserVars, pipelineVars, synthVars,
                    analyzed_sources, key_findings >>

\* key_findings[:5] (research_assistant.py:252)
LimitedFindings(findings) == Truncate(findings, 5)

\* The fallback report of research_assistant.py:313-334.
FallbackItem(finding) ==
    [title |-> Prefix(finding.source_title, 50), finding |-> Prefix(finding.finding, 150)]

FallbackSummary(findings, sources) ==
    Summary("fallback", 400, TRUE,
            [sources |-> Len(sources), findings |-> Len(findings), query |-> TRUE],
            [i \in 1..Len(LimitedFindings(findings)) |-> FallbackItem(findings[i])])

\* The prompt an attempt of phase 4 sends: final_prompt is assigned the full
\* prompt at the top of each iteration (research_assistant.py:265), after the
\* handler of the attempt before assigned it the short one (298-309).
PromptSent(attemptsMade) == "full"

\* _phase_4_final_summary (research_assistant.py:246-338), one attempt: the
\* generated text is the summary; a failure leads to the next attempt, the
\* third failure to the fallback report.
EnhancedSummaryAttempt ==
    /\ pc = "e_summary"
    /\ Len(synthLog) < MaxRetries
    /\ llmCalls' = llmCalls + 1
    /\ \E b \in SynthBehaviours :
          /\ synthLog' = Append(synthLog,
                [prompt |-> PromptSent(Len(synthLog)), raised |-> b.raises])
          /\ IF ~b.raises
             THEN /\ final_summary' = Summary("generated", b.chars, FALSE, None, <<>>)
                  /\ pc' = "done"
             ELSE IF Len(synthLog') < MaxRetries
             THEN UNCHANGED << final_summary, pc >>
             ELSE /\ final_summary' = FallbackSummary(key_findings, analyzed_sources)
                  /\ pc' = "done"
    /\ UNCHANGED << inputVars, componentVars, serverVars, searchVars, browserVars, pipelineVars, enhancedVars,
                    report >>

----------------------------------------------------------------------------
(* Specifications *)

\* The state conduct_research starts from (assistant.py:57-66).
Fresh ==
    /\ searchCalls = 0
    /\ returned = None
    /\ search_results = <<>>
    /\ raised = "none"
    /\ srcIdx = 1
    /\ attempt = 0
    /\ firstData = None
    /\ navCalls = 0
    /\ extractCalls = 0
    /\ extractLog = <<>>
    /\ pending = None
    /\ images_found = 0
    /\ imageLog = <<>>
    /\ anIdx = 1
    /\ analysis = None
    /\ processed = <<>>
    /\ anLog = <<>>
    /\ llmCalls = 0
    /\ analysis_results = <<>>
    /\ final_summary = NoSummary
    /\ analyzed_sources = <<>>
    /\ key_findings = <<>>
    /\ themesLeft = -1
    /\ synthLog = <<>>
    /\ report = None
    /\ config = None
    /\ server = None
    /\ toolResult = None
    /\ shown = None
    /\ passage = None
    /\ measured = None
    /\ session = None
    /\ sessionLog = <<>>

\* Largest max_retry_attempts of the configurations explored.
MaxRetryAttempts == 3

\* Configurations of a session: max_retry_attempts from 0 (admissible, ge=0) up.
SessionConfigs ==
    { ResearchConfig(mra, 300, Pts(50), 8) : mra \in 0..MaxRetryAttempts }

SessionArgs ==
    [max_sources : {1, 8}, include_images : BOOLEAN, extractor_bound : BOOLEAN,
     formatter_bound : BOOLEAN, query_terms : {QueryTerms}]

SessionEnv ==
    [lists |-> SeqsUpTo(SearchResult(0..MaxUrl, {1}), MaxResults),
     steps |-> {"nav_error", "ext_raise", "ext_ok"},
     contents |-> {PageText(120, QueryTerms), PageText(900, QueryTerms)},
     llm |-> { b \in LlmBehaviours :
                  \/ b.kind = "summary_raises"
                  \/ b.kind = "ok" /\ b.hits = QueryTerms /\ b.finding.len = 40 },
     images |-> { b \in ImageBehaviours : b.raises \/ b.found = 1 },
     failures |-> {},
     findings |-> {},
     themes |-> {}]

\* A session of ResearchAssistant.conduct_research.
Init ==
    /\ cfg \in SessionConfigs
    /\ env = SessionEnv
    /\ args \in SessionArgs
    /\ pc = "search"
    /\ sessionActive \in BOOLEAN
    /\ prepared = <<>>
    /\ Fresh

Next ==
    \/ FormatterUnbound
    \/ SearchReturns
    \/ SearchRaises
    \/ ExtractAttempt
    \/ ExtractUnbound
    \/ ExtractImages
    \/ StartAnalysis
    \/ AnalyzeFirstPass
    \/ AnalyzeSecondPass
    \/ AnalyzeReturn
    \/ Synthesize
    \/ GenerateMarkdownReport

Spec == Init /\ [][Next]_vars

\* A session of EnhancedResearchAssistant.conduct_comprehensive_research.
EnhancedEnv ==
    [lists |-> SeqsUpTo(SearchResult(0..1, 0..2), MaxResults),
     steps |-> BrowserSteps,
     contents |-> {PageText(20, 0), PageText(120, QueryTerms)},
     llm |-> {},
     images |-> {},
     failures |-> {0, MaxRetries},
     findings |-> {Text("", 0), Text("finding A", 40), Text("finding B", 200)},
     themes |-> {0, 1}]

InitEnhanced ==
    /\ cfg = DefaultConfig
    /\ env = EnhancedEnv
    /\ args \in [max_sources : {1, 8}, include_images : {FALSE},
                 extractor_bound : {TRUE}, formatter_bound : {TRUE},
                 query_terms : {QueryTerms}]
    /\ pc = "e_search"
    /\ sessionActive \in BOOLEAN
    /\ prepared = <<>>
    /\ Fresh

NextEnhanced ==
    \/ EnhancedSearchReturns
    \/ EnhancedSearchRaises
    \/ EnhancedAnalyzeSource
    \/ EnhancedKeyFinding
    \/ EnhancedIdentifyThemes
    \/ EnhancedThemeSummary
    \/ EnhancedSummaryAttempt

SpecEnhanced == InitEnhanced /\ [][NextEnhanced]_vars

\* ContentAnalyzer.analyze_sources called on a list of prepared sources.
\* Longest list handed to it.
AnalyzerSources == 2

\* The prepared sources: texts with no, few or many words, the empty text,
\* and a text of few words longer than deep_content_limit; the one of many
\* words extracted deeply.
PreparedSources ==
    { [title |-> 1, url |-> 1, content |-> c, word_count |-> c.wc,
       extraction_depth |-> IF c.wc = 900 THEN "deep" ELSE "normal"] :
        c \in {EmptyText, PageText(20, 0), PageText(900, QueryTerms),
               LongWordsText(QueryTerms)} }

AnalyzerConfigs ==
    { ResearchConfig(mra, mwc, thr, 8) :
        mra \in {0, 2}, mwc \in {10, 300}, thr \in {Pts(0), Pts(10), Pts(50)} }

AnalyzerEnv ==
    [lists |-> {},
     steps |-> {},
     contents |-> {},
     llm |-> { b \in LlmBehaviours :
                  \/ b.kind = "summary_raises"
                  \/ b.kind = "finding_raises" /\ b.hits = QueryTerms
                  \/ b.kind = "ok" /\ b.finding.len = 40 },
     images |-> {},
     failures |-> {},
     findings |-> {},
     themes |-> {}]

InitAnalyzer ==
    /\ cfg \in AnalyzerConfigs
    /\ env = AnalyzerEnv
    /\ args \in [max_sources : {8}, include_images : {FALSE},
                 extractor_bound : {TRUE}, formatter_bound : {TRUE},
                 query_terms : {0, QueryTerms}]
    /\ pc = "analyze"
    /\ sessionActive = TRUE
    /\ Fresh
    /\ prepared \in SeqsUpTo(PreparedSources, AnalyzerSources) \ { <<>> }

NextAnalyzer ==
    \/ AnalyzeFirstPass
    \/ AnalyzeSecondPass
    \/ AnalyzeReturn
    \/ FormatAnalyses
    \/ DisplayResults

SpecAnalyzer == InitAnalyzer /\ [][NextAnalyzer]_vars

\* analyze_sources under the default configuration, in a task that may be
\* cancelled.
InitCancel ==
    /\ InitAnalyzer
    /\ cfg = DefaultConfig
    /\ args.query_terms = QueryTerms

NextCancel ==
    \/ AnalyzeFirstPass
    \/ AnalyzeSecondPass
    \/ AnalyzeReturn
    \/ CancelAnalysis

SpecCancel == InitCancel /\ [][NextCancel]_vars

\* The extraction loop of a session over one or two search results (one of
\* the lists holds a result with an empty title), with every
\* behaviour of the browser and page texts of 60, 120, 400 and 900 words.
ExtractorEnv ==
    [lists |-> { <<[url |-> 1, title |-> 1]>>,
                 <<[url |-> 2, title |-> 0]>>,
                 <<[url |-> 1, title |-> 1], [url |-> 2, title |-> 1]>> },
     steps |-> BrowserSteps,
     contents |-> {PageText(60, QueryTerms), PageText(120, QueryTerms),
                   PageText(400, QueryTerms), PageText(900, QueryTerms)},
     llm |-> {},
     images |-> {},
     failures |-> {},
     findings |-> {},
     themes |-> {}]

InitExtractor ==
    /\ cfg \in SessionConfigs
    /\ env = ExtractorEnv
    /\ args = [max_sources |-> 8, include_images |-> FALSE, extractor_bound |-> TRUE,
               formatter_bound |-> TRUE, query_terms |-> QueryTerms]
    /\ pc = "search"
    /\ sessionActive \in BOOLEAN
    /\ prepared = <<>>
    /\ Fresh

NextExtractor ==
    \/ SearchReturns
    \/ ExtractAttempt
    \/ StartAnalysis

SpecExtractor == InitExtractor /\ [][NextExtractor]_vars

\* A session with image extraction, of a well-wired ResearchAssistant under
\* the default configuration: one or two search results, pages that are
\* extracted or fail, every outcome of extract_images.
ImagesEnv ==
    [lists |-> ExtractorEnv.lists,
     steps |-> {"ext_raise", "ext_ok"},
     contents |-> {PageText(400, QueryTerms)},
     llm |-> { b \in LlmBehaviours :
                  \/ b.kind = "summary_raises"
                  \/ b.kind = "ok" /\ b.hits = QueryTerms /\ b.finding.len = 40 },
     images |-> ImageBehaviours,
     failures |-> {},
     findings |-> {},
     themes |-> {}]

InitImages ==
    /\ cfg = DefaultConfig
    /\ env = ImagesEnv
    /\ args = [max_sources |-> 8, include_images |-> TRUE, extractor_bound |-> TRUE,
               formatter_bound |-> TRUE, query_terms |-> QueryTerms]
    /\ pc = "search"
    /\ sessionActive \in BOOLEAN
    /\ prepared = <<>>
    /\ Fresh

NextImages ==
    \/ SearchReturns
    \/ ExtractAttempt
    \/ ExtractImages
    \/ StartAnalysis
    \/ AnalyzeFirstPass
    \/ AnalyzeSecondPass
    \/ AnalyzeReturn

SpecImages == InitImages /\ [][NextImages]_vars

\* Longest list of analyses handed to the summary and to the report.
ReportAnalyses == 6

\* Analyses as analyze_sources returns them: scores 7.2, 3.1, 8.0, 4.5 and
\* the 0.6 of a page of 3 words, two of them the same, with word counts and
\* themes.
ReportedAnalyses ==
    { [summary |-> [kind |-> "generated", hits |-> 0],
       relevance_score |-> Pts(72), key_finding |-> Text("finding A", 40),
       themes |-> <<"Solar">>, word_count |-> 500,
       extraction_method |-> "normal", analysis_method |-> "normal"],
      [summary |-> [kind |-> "generated", hits |-> 0],
       relevance_score |-> Pts(31), key_finding |-> Text("finding B", 200),
       themes |-> <<>>, word_count |-> 20,
       extraction_method |-> "deep", analysis_method |-> "enhanced"],
      [summary |-> [kind |-> "generated", hits |-> QueryTerms],
       relevance_score |-> Pts(80), key_finding |-> Text("finding A", 40),
       themes |-> <<"Solar", "Wind">>, word_count |-> 900,
       extraction_method |-> "normal", analysis_method |-> "normal"],
      [summary |-> [kind |-> "generated", hits |-> 0],
       relevance_score |-> Pts(45), key_finding |-> Text("finding B", 200),
       themes |-> <<"Wind">>, word_count |-> 120,
       extraction_method |-> "normal", analysis_method |-> "enhanced"],
      [summary |-> [kind |-> "generated", hits |-> 0],
       relevance_score |-> Pts(6), key_finding |-> Text("finding A", 40),
       themes |-> <<"Wind">>, word_count |-> 3,
       extraction_method |-> "normal", analysis_method |-> "normal"] }

\* generate_final_summary and generate_markdown_report called, under the
\* default configuration, with a list of analyses and as many sources.
InitFormatter ==
    /\ cfg = DefaultConfig
    /\ env = AnalyzerEnv
    /\ args = [max_sources |-> 8, include_images |-> FALSE, extractor_bound |-> TRUE,
               formatter_bound |-> TRUE, query_terms |-> QueryTerms]
    /\ pc = "synth"
    /\ sessionActive = TRUE
    /\ searchCalls = 0
    /\ returned = None
    /\ search_results = <<>>
    /\ raised = "none"
    /\ srcIdx = 1
    /\ attempt = 0
    /\ firstData = None
    /\ navCalls = 0
    /\ extractCalls = 0
    /\ extractLog = <<>>
    /\ pending = None
    /\ images_found = 0
    /\ imageLog = <<>>
    /\ analysis = None
    /\ anLog = <<>>
    /\ llmCalls = 0
    /\ analysis_results \in SeqsUpTo(ReportedAnalyses, ReportAnalyses)
    /\ processed = analysis_results
    /\ anIdx = Len(analysis_results) + 1
    /\ prepared = [i \in 1..Len(analysis_results) |->
                      [title |-> 1, url |-> 1, content |-> PageText(120, 0),
                       word_count |-> 120, extraction_depth |-> "normal"]]
    /\ final_summary = NoSummary
    /\ analyzed_sources = <<>>
    /\ key_findings = <<>>
    /\ themesLeft = -1
    /\ synthLog = <<>>
    /\ report = None
    /\ config = None
    /\ server = None
    /\ toolResult = None
    /\ shown = None
    /\ passage = None
    /\ measured = None
    /\ session = None
    /\ sessionLog = <<>>

NextFormatter ==
    \/ Synthesize
    \/ FormatAnalyses

SpecFormatter == InitFormatter /\ [][NextFormatter]_vars

\* A whitespace-separated word as it stands in a text: its letters in lower
\* case, whether it is written with a capital, and whether a punctuation mark
\* is attached to it ("solar", "Solar", "solar,").
Token(word, upper, mark) == [word |-> word, upper |-> upper, mark |-> mark]

\* A word left as it is written.
LowerKeepsCase(token) == token

\* str.lower() on one word
Lower(token) == [token EXCEPT !.upper = FALSE]

\* str.title() on one lower-case word
Title(token) == [token EXCEPT !.upper = TRUE]

\* len(word)
Length(token) == Len(token.word) + (IF token.mark THEN 1 ELSE 0)

\* text.lower().split()
LowerSplit(tokens) == [i \in 1..Len(tokens) |-> Lower(tokens[i])]

\* set(text.lower().split())
Terms(tokens) == { Lower(tokens[i]) : i \in 1..Len(tokens) }

\* _calculate_relevance_score (analyzer.py:203-221) on a content of
\* `content.tokens` followed by `content.filler` other words, none of them a
\* term of the query: the overlaps are counted on the sets of lower-case
\* words and the score follows as in RelevanceScore.
CalculateRelevanceScore(content, query, summary) ==
    LET query_words == Terms(query)
        content_words == Terms(content.tokens)
        summary_words == Terms(summary)
    IN  RelevanceScore([wc |-> Len(content.tokens) + content.filler,
                        hits |-> Cardinality(query_words \cap content_words)],
                       Cardinality(query_words),
                       Cardinality(query_words \cap summary_words))

\* The list of analyzer.py:233-256.
StopWords ==
    {"that", "this", "with", "from", "they", "have", "will", "been", "were", "said",
     "what", "when", "where", "would", "could", "should", "about", "which", "their",
     "there", "these", "those"}

\* A theme extraction that keeps the words occurring once.
ExtractThemesOnceSuffices(content) ==
    LET words == LowerSplit(content.tokens)
        meaningful == SelectSeq(words, LAMBDA w : /\ Length(w) > 4
                                                   /\ ~(~w.mark /\ w.word \in StopWords))
        word_freq == ThemeTable(meaningful)
        themes == Truncate(RankByCount(word_freq, Len(word_freq)), 5)
    IN  [k \in 1..Len(themes) |-> Title(themes[k].name)]

\* _extract_themes (analyzer.py:223-268): the lower-case words longer than 4
\* characters and not in the stop list are counted, ranked by count, the
\* first 5 kept, and of these the ones counted more than once returned in
\* title case.
ExtractThemes(content) ==
    LET words == LowerSplit(content.tokens)
        meaningful == SelectSeq(words, LAMBDA w : /\ Length(w) > 4
                                                   /\ ~(~w.mark /\ w.word \in StopWords))
        word_freq == ThemeTable(meaningful)
        themes == Truncate(RankByCount(word_freq, Len(word_freq)), 5)
        kept == SelectSeq(themes, LAMBDA theme : theme.count > 1)
    IN  [k \in 1..Len(kept) |-> Title(kept[k].name)]

\* _calculate_relevance_score called on the passage.
CalculateRelevance ==
    /\ pc = "score"
    /\ measured = None
    /\ measured' = [relevance_score |->
                       CalculateRelevanceScore(passage.content, passage.query, passage.summary)]
    /\ UNCHANGED << inputVars, serverVars, shown, passage, session, sessionLog, pc, searchVars,
                    browserVars, extractVars, analyzeVars, llmCalls, synthVars, enhancedVars >>

\* _extract_themes called on the passage.
ExtractThemesOfPassage ==
    /\ pc = "themes"
    /\ measured = None
    /\ measured' = [themes |-> ExtractThemes(passage.content)]
    /\ UNCHANGED << inputVars, serverVars, shown, passage, session, sessionLog, pc, searchVars,
                    browserVars, extractVars, analyzeVars, llmCalls, synthVars, enhancedVars >>

\* Longest query and longest run of given words in a content.
TextLen == 2

\* The words the texts of a scored passage are made of.
ScoredTokens ==
    {Token("solar", FALSE, FALSE), Token("solar", TRUE, FALSE),
     Token("solar", FALSE, TRUE), Token("wind", FALSE, FALSE)}

\* The state no session, server or component has touched yet, but for the
\* passage.
Untouched ==
    /\ cfg = DefaultConfig
    /\ env = AnalyzerEnv
    /\ args = [max_sources |-> 8, include_images |-> FALSE, extractor_bound |-> TRUE,
               formatter_bound |-> TRUE, query_terms |-> QueryTerms]
    /\ sessionActive = FALSE
    /\ searchCalls = 0
    /\ returned = None
    /\ search_results = <<>>
    /\ raised = "none"
    /\ srcIdx = 1
    /\ attempt = 0
    /\ firstData = None
    /\ navCalls = 0
    /\ extractCalls = 0
    /\ extractLog = <<>>
    /\ pending = None
    /\ prepared = <<>>
    /\ images_found = 0
    /\ imageLog = <<>>
    /\ anIdx = 1
    /\ analysis = None
    /\ processed = <<>>
    /\ anLog = <<>>
    /\ llmCalls = 0
    /\ analysis_results = <<>>
    /\ final_summary = NoSummary
    /\ analyzed_sources = <<>>
    /\ key_findings = <<>>
    /\ themesLeft = -1
    /\ synthLog = <<>>
    /\ report = None
    /\ config = None
    /\ server = None
    /\ toolResult = None
    /\ shown = None
    /\ measured = None
    /\ sessionLog = <<>>

\* _calculate_relevance_score on contents of up to TextLen given words, alone
\* or followed by 50 or 200 other words, queries of up to TextLen words and
\* summaries of at most one word.
InitRelevance ==
    /\ Untouched
    /\ pc = "score"
    /\ session = None
    /\ passage \in [content : [tokens : SeqsUpTo(ScoredTokens, TextLen), filler : {0, 50, 200}],
                    query : SeqsUpTo(ScoredTokens, TextLen),
                    summary : SeqsUpTo(ScoredTokens, 1)]

NextRelevance == CalculateRelevance

SpecRelevance == InitRelevance /\ [][NextRelevance]_vars

\* Most occurrences of one word in a content given to _extract_themes.
MaxMentions == 2

\* The words of those contents: six that can be themes, a stop word of five
\* letters, a word of four letters, and that word with a comma attached.
ThemeVocabulary ==
    << "solar", "energy", "panel", "power", "clean", "green", "their", "wind", "wind" >>

RECURSIVE Repeat(_, _)
\* token written n times, the first time with a capital
Repeat(token, n) ==
    IF n = 0 THEN <<>>
    ELSE IF n = 1 THEN << Title(token) >>
    ELSE Append(Repeat(token, n - 1), token)

\* The content in which the k-th word of the vocabulary stands mentions[k]
\* times, the words in the order of the vocabulary or in the opposite order.
ThemeContent(mentions, backwards) ==
    LET n == Len(ThemeVocabulary)
        At(k) == IF backwards THEN n + 1 - k ELSE k
    IN  [tokens |-> Flatten([k \in 1..n |->
                       Repeat(Token(ThemeVocabulary[At(k)], FALSE, At(k) = n), mentions[At(k)])]),
         filler |-> 0]

InitThemes ==
    /\ Untouched
    /\ pc = "themes"
    /\ session = None
    /\ \E mentions \in [1..Len(ThemeVocabulary) -> 0..MaxMentions], backwards \in BOOLEAN :
          /\ \A k \in 7..Len(ThemeVocabulary) : mentions[k] \in {0, MaxMentions}
          /\ passage = [content |-> ThemeContent(mentions, backwards),
                        query |-> <<>>, summary |-> <<>>]

NextThemes == ExtractThemesOfPassage

SpecThemes == InitThemes /\ [][NextThemes]_vars

\* BrowserSession (web/browser/session.py).  The handles are TRUE when set,
\* FALSE when None.
Handles(s) == [playwright |-> s.playwright, browser |-> s.browser,
               context |-> s.context, page |-> s.page, active |-> s.active]

\* BrowserSession.__init__ (session.py:21-28)
NewBrowserSession ==
    [playwright |-> FALSE, browser |-> FALSE, context |-> FALSE, page |-> FALSE,
     active |-> FALSE, call |-> "idle", step |-> 0, before |-> None]

\* A cleanup that leaves _session_active as it is.
ForceCleanupKeepsActive(s) ==
    [s EXCEPT !.page = FALSE, !.context = FALSE, !.browser = FALSE, !.playwright = FALSE]

\* _force_cleanup (session.py:287-293); _cleanup_failed_start
\* (session.py:271-285) ends with it whatever its own closing calls do.
ForceCleanup(s) ==
    [s EXCEPT !.page = FALSE, !.context = FALSE, !.browser = FALSE, !.playwright = FALSE,
              !.active = FALSE]

\* A call returned or raised: the session is at rest again and the call is
\* logged with the state it found and the state it left.
Finished(s, op, status) ==
    [ session |-> [s EXCEPT !.call = "idle", !.step = 0, !.before = None],
      entry |-> [op |-> op, status |-> status,
                 before |-> IF s.before = None THEN Handles(s) ELSE s.before,
                 after |-> Handles(s)] ]

\* Most calls made on one BrowserSession.
SessionCalls == 4

\* start() is called (session.py:43-44): it returns already_active at once, or
\* enters its try block.
StartCalled ==
    /\ pc = "browser"
    /\ session.call = "idle"
    /\ Len(sessionLog) < SessionCalls
    /\ IF session.active
       THEN LET f == Finished(session, "start", "already_active")
            IN  /\ session' = f.session
                /\ sessionLog' = Append(sessionLog, f.entry)
       ELSE /\ session' = [session EXCEPT !.call = "start", !.step = 1,
                                          !.before = Handles(session)]
            /\ UNCHANGED sessionLog
    /\ UNCHANGED << inputVars, serverVars, shown, passage, measured, pc, searchVars,
                    browserVars, extractVars, analyzeVars, llmCalls, synthVars, enhancedVars >>

\* One awaited step of start() (session.py:46-81): async_playwright().start(),
\* chromium.launch, new_context, new_page, _setup_page_optimizations.  A step
\* that raises leads to _cleanup_failed_start and BrowserSessionError
\* (session.py:92-95); after the last one _session_active is set.
StartStep ==
    /\ pc = "browser"
    /\ session.call = "start"
    /\ \E ok \in BOOLEAN :
          LET stepped == CASE session.step = 1 -> [session EXCEPT !.playwright = TRUE]
                           [] session.step = 2 -> [session EXCEPT !.browser = TRUE]
                           [] session.step = 3 -> [session EXCEPT !.context = TRUE]
                           [] session.step = 4 -> [session EXCEPT !.page = TRUE]
                           [] OTHER -> [session EXCEPT !.active = TRUE]
          IN  IF ~ok
              THEN LET f == Finished(ForceCleanup(session), "start", "error")
                   IN  /\ session' = f.session
                       /\ sessionLog' = Append(sessionLog, f.entry)
              ELSE IF session.step < 5
              THEN /\ session' = [stepped EXCEPT !.step = session.step + 1]
                   /\ UNCHANGED sessionLog
              ELSE LET f == Finished(stepped, "start", "success")
                   IN  /\ session' = f.session
                       /\ sessionLog' = Append(sessionLog, f.entry)
    /\ UNCHANGED << inputVars, serverVars, shown, passage, measured, pc, searchVars,
                    browserVars, extractVars, analyzeVars, llmCalls, synthVars, enhancedVars >>

\* close() is called (session.py:104-105): it returns not_active at once, or
\* enters its try block.
CloseCalled ==
    /\ pc = "browser"
    /\ session.call = "idle"
    /\ Len(sessionLog) < SessionCalls
    /\ IF ~session.active
       THEN LET f == Finished(session, "close", "not_active")
            IN  /\ session' = f.session
                /\ sessionLog' = Append(sessionLog, f.entry)
       ELSE /\ session' = [session EXCEPT !.call = "close", !.step = 1,
                                          !.before = Handles(session)]
            /\ UNCHANGED sessionLog
    /\ UNCHANGED << inputVars, serverVars, shown, passage, measured, pc, searchVars,
                    browserVars, extractVars, analyzeVars, llmCalls, synthVars, enhancedVars >>

\* One step of close() (session.py:107-125): page.close, context.close,
\* browser.close, playwright.stop, each made only if the handle is set and
\* followed by the handle's reset.  A step that raises leads to
\* _force_cleanup and BrowserSessionError (session.py:130-134); after the last
\* one _session_active is reset.
CloseStep ==
    /\ pc = "browser"
    /\ session.call = "close"
    /\ LET held == CASE session.step = 1 -> session.page
                     [] session.step = 2 -> session.context
                     [] session.step = 3 -> session.browser
                     [] OTHER -> session.playwright
           stepped == CASE session.step = 1 -> [session EXCEPT !.page = FALSE]
                        [] session.step = 2 -> [session EXCEPT !.context = FALSE]
                        [] session.step = 3 -> [session EXCEPT !.browser = FALSE]
                        [] OTHER -> [session EXCEPT !.playwright = FALSE, !.active = FALSE]
       IN \E ok \in (IF held THEN BOOLEAN ELSE {TRUE}) :
            IF ~ok
            THEN LET f == Finished(ForceCleanup(session), "close", "error")
                 IN  /\ session' = f.session
                     /\ sessionLog' = Append(sessionLog, f.entry)
            ELSE IF session.step < 4
            THEN /\ session' = [stepped EXCEPT !.step = session.step + 1]
                 /\ UNCHANGED sessionLog
            ELSE LET f == Finished(stepped, "close", "success")
                 IN  /\ session' = f.session
                     /\ sessionLog' = Append(sessionLog, f.entry)
    /\ UNCHANGED << inputVars, serverVars, shown, passage, measured, pc, searchVars,
                    browserVars, extractVars, analyzeVars, llmCalls, synthVars, enhancedVars >>

\* A BrowserSession just constructed, on which start and close are called one
\* after the other.
InitBrowserSession ==
    /\ Untouched
    /\ pc = "browser"
    /\ passage = None
    /\ session = NewBrowserSession

NextBrowserSession ==
    \/ StartCalled
    \/ StartStep
    \/ CloseCalled
    \/ CloseStep

SpecBrowserSession == InitBrowserSession /\ [][NextBrowserSession]_vars

\* A session of a ResearchAssistant constructed as the signatures ask, under
\* the default configuration, followed by the caller's cleanup().
InitCleanup ==
    /\ Init
    /\ cfg = DefaultConfig
    /\ args.extractor_bound
    /\ args.formatter_bound

NextCleanup ==
    \/ SearchReturns
    \/ SearchRaises
    \/ ExtractAttempt
    \/ ExtractImages
    \/ StartAnalysis
    \/ AnalyzeFirstPass
    \/ AnalyzeSecondPass
    \/ AnalyzeReturn
    \/ Synthesize
    \/ Cleanup

SpecCleanup == InitCleanup /\ [][NextCleanup]_vars

\* A research session of either pipeline run to its end.  The coroutine is
\* awaited by its caller and every collaborator call eventually returns or
\* raises, so a step of the session that can be taken is eventually taken:
\* weak fairness of NextLive.
InitLive ==
    \/ /\ Init
       /\ cfg.max_retry_attempts \in {0, 2}
       /\ args.max_sources = 8
       /\ sessionActive
    \/ /\ cfg = DefaultConfig
       /\ env = [EnhancedEnv EXCEPT
                    !.lists = SeqsUpTo(SearchResult({1}, {1}), MaxResults),
                    !.steps = {"ext_raise", "ext_ok"},
                    !.contents = {PageText(120, QueryTerms)},
                    !.findings = {Text("", 0), Text("finding A", 40)}]
       /\ args \in [max_sources : {8}, include_images : {FALSE},
                    extractor_bound : {TRUE}, formatter_bound : {TRUE},
                    query_terms : {QueryTerms}]
       /\ pc = "e_search"
       /\ sessionActive = TRUE
       /\ prepared = <<>>
       /\ Fresh

NextLive ==
    \/ EnhancedSearchReturns
    \/ EnhancedSearchRaises
    \/ EnhancedAnalyzeSource
    \/ EnhancedKeyFinding
    \/ EnhancedIdentifyThemes
    \/ EnhancedThemeSummary
    \/ EnhancedSummaryAttempt
    \/ FormatterUnbound
    \/ SearchReturns
    \/ SearchRaises
    \/ ExtractAttempt
    \/ ExtractUnbound
    \/ ExtractImages
    \/ StartAnalysis
    \/ AnalyzeFirstPass
    \/ AnalyzeSecondPass
    \/ AnalyzeReturn
    \/ Synthesize

SpecLive == InitLive /\ [][NextLive]_vars /\ WF_vars(NextLive)

----------------------------------------------------------------------------
(* Config (core/config.py) and SwarmMCPServer (mcp_tools/server.py) *)

\* The defaults of the fields (config.py:14-39); temperature in tenths.
LLMConfigDefaults ==
    [base_url |-> "http://localhost:11434", model |-> "llama3.2:latest",
     temperature |-> 7, max_tokens |-> 8192]

BrowserConfigDefaults ==
    [headless |-> FALSE, timeout |-> 60000,
     viewport_width |-> 1280, viewport_height |-> 720]

SearchConfigDefaults == [engine |-> "duckduckgo", results_limit |-> 10]

\* The constraints of the fields (config.py:20-21, 38): a construction that
\* breaks one raises pydantic's ValidationError, a ValueError.
LLMConfigValid(l) == l.temperature >= 0 /\ l.temperature <= 20 /\ l.max_tokens > 0
SearchConfigValid(r) == r.results_limit > 0

ValidationError == [error |-> "ValueError"]

\* Config(llm=..., browser=..., search=...) (config.py:69-77), with the way
\* it was constructed.
Config(how, l, b, r) ==
    IF LLMConfigValid(l) /\ SearchConfigValid(r)
    THEN [how |-> how, llm |-> l, browser |-> b, search |-> r]
    ELSE ValidationError

\* Config(): every section from its default_factory.
ConstructDefault ==
    /\ config = None
    /\ config' = Config("Config()", LLMConfigDefaults, BrowserConfigDefaults,
                        SearchConfigDefaults)
    /\ UNCHANGED << inputVars, componentVars, pc, searchVars, browserVars, extractVars, analyzeVars,
                    llmCalls, synthVars, enhancedVars, server, toolResult >>

\* The keyword arguments the sections are constructed with: for each field
\* its default or another value (those of tests/test_config.py:27-66).
LLMConfigArgs ==
    [base_url : {LLMConfigDefaults.base_url, "http://localhost:8000"},
     model : {LLMConfigDefaults.model, "gpt-4"},
     temperature : {LLMConfigDefaults.temperature, 5, 30},
     max_tokens : {LLMConfigDefaults.max_tokens, 1024, 0}]

BrowserConfigArgs ==
    [headless : BOOLEAN, timeout : {BrowserConfigDefaults.timeout, 30000},
     viewport_width : {BrowserConfigDefaults.viewport_width, 1920},
     viewport_height : {BrowserConfigDefaults.viewport_height, 1080}]

SearchConfigArgs ==
    [engine : {SearchConfigDefaults.engine}, results_limit : {SearchConfigDefaults.results_limit, 0}]

\* Config(llm=LLMConfig(...), browser=BrowserConfig(...), search=SearchConfig(...))
ConstructWith ==
    /\ config = None
    /\ \E l \in LLMConfigArgs, b \in BrowserConfigArgs, r \in SearchConfigArgs :
          config' = Config("Config(...)", l, b, r)
    /\ UNCHANGED << inputVars, componentVars, pc, searchVars, browserVars, extractVars, analyzeVars,
                    llmCalls, synthVars, enhancedVars, server, toolResult >>

\* os.getenv(name, default) for a variable that is unset or set to one of `set`
Getenv(default, set) == {default} \cup set

\* value.lower() == "true"
IsTrueText(value) == value \in {"true", "True", "TRUE"}

\* int(value) for the texts of the model
IntOf(value) ==
    CASE value = "8192" -> 8192
      [] value = "1024" -> 1024
      [] value = "60000" -> 60000
      [] value = "30000" -> 30000

\* Config.from_env (config.py:79-120) under an environment that sets some of
\* LLM_MODEL, LLM_MAX_TOKENS, BROWSER_HEADLESS and BROWSER_TIMEOUT; the other
\* variables are unset and get the defaults written in from_env.
ConstructFromEnv ==
    /\ config = None
    /\ \E model \in Getenv("llama3.2:latest", {"gpt-4"}),
          max_tokens \in Getenv("8192", {"1024"}),
          headless \in Getenv("true", {"True", "false", "1"}),
          timeout \in Getenv("60000", {"30000"}) :
          config' = Config("from_env",
                           [base_url |-> "http://localhost:11434", model |-> model,
                            temperature |-> 7, max_tokens |-> IntOf(max_tokens)],
                           [headless |-> IsTrueText(headless), timeout |-> IntOf(timeout),
                            viewport_width |-> 1280, viewport_height |-> 720],
                           [engine |-> "duckduckgo", results_limit |-> 10])
    /\ UNCHANGED << inputVars, componentVars, pc, searchVars, browserVars, extractVars, analyzeVars,
                    llmCalls, synthVars, enhancedVars, server, toolResult >>

\* Browser(config.browser) (web/browser/browser.py:28-44): the session flag
\* is kept by its BrowserSession (web/browser/session.py:28), the Browser
\* object itself has no _session_active attribute.
Browser(b) == [config |-> b, session |-> [_session_active |-> FALSE]]

\* WebSearch(config.search)
WebSearch(r) == [config |-> r]

\* SwarmMCPServer.__init__ (server.py:30-45)
SwarmMCPServer(c) ==
    [config |-> c, browser |-> Browser(c.browser), search |-> WebSearch(c.search),
     _session_active |-> FALSE]

\* create_mcp_server(config) (server.py:479-489)
ConstructServer ==
    /\ config \notin {None, ValidationError}
    /\ server = None
    /\ server' = SwarmMCPServer(config)
    /\ UNCHANGED << inputVars, componentVars, pc, searchVars, browserVars, extractVars, analyzeVars,
                    llmCalls, synthVars, enhancedVars, config, toolResult >>

\* What a tool call returned.
ToolResult(tool, status) == [tool |-> tool, status |-> status]

\* The outcomes of browser.start_session() and browser.close_session().
SessionOutcomes == {"success", "error", "raises"}

\* The tool start_browser_session(headless) (server.py:65-102).  Reading
\* self.browser._session_active raises AttributeError on an object without
\* that attribute; the handler turns every exception into an error result.
StartBrowserSession ==
    /\ server # None
    /\ \E headless \in BOOLEAN, outcome \in SessionOutcomes :
          IF "_session_active" \notin DOMAIN server.browser
          THEN /\ toolResult' = ToolResult("start_browser_session", "error")
               /\ UNCHANGED server
          ELSE IF server.browser._session_active
          THEN /\ toolResult' = ToolResult("start_browser_session", "already_active")
               /\ UNCHANGED server
          ELSE /\ toolResult' = ToolResult("start_browser_session",
                                    IF outcome = "raises" THEN "error" ELSE outcome)
               /\ server' = [server EXCEPT
                    !.browser.config.headless = headless,
                    !.browser._session_active = (outcome = "success"),
                    !._session_active = (outcome = "success")]
    /\ UNCHANGED << inputVars, componentVars, pc, searchVars, browserVars, extractVars, analyzeVars,
                    llmCalls, synthVars, enhancedVars, config >>

\* The tool close_browser_session() (server.py:104-131)
CloseBrowserSession ==
    /\ server # None
    /\ \E outcome \in SessionOutcomes :
          IF "_session_active" \notin DOMAIN server.browser
          THEN /\ toolResult' = ToolResult("close_browser_session", "error")
               /\ UNCHANGED server
          ELSE IF ~server.browser._session_active
          THEN /\ toolResult' = ToolResult("close_browser_session", "not_active")
               /\ UNCHANGED server
          ELSE /\ toolResult' = ToolResult("close_browser_session",
                                    IF outcome = "raises" THEN "error" ELSE outcome)
               /\ server' = [server EXCEPT
                    !.browser._session_active = ~(outcome = "success"),
                    !._session_active = ~(outcome = "success")]
    /\ UNCHANGED << inputVars, componentVars, pc, searchVars, browserVars, extractVars, analyzeVars,
                    llmCalls, synthVars, enhancedVars, config >>

\* A process that constructs its Config and its MCP server and calls the
\* session tools; no research session runs in it.
InitServer ==
    /\ cfg = DefaultConfig
    /\ env = AnalyzerEnv
    /\ args = [max_sources |-> 8, include_images |-> FALSE, extractor_bound |-> TRUE,
               formatter_bound |-> TRUE, query_terms |-> QueryTerms]
    /\ pc = "idle"
    /\ sessionActive = FALSE
    /\ prepared = <<>>
    /\ Fresh

NextServer ==
    \/ ConstructDefault
    \/ ConstructWith
    \/ ConstructFromEnv
    \/ ConstructServer
    \/ StartBrowserSession
    \/ CloseBrowserSession

SpecServer == InitServer /\ [][NextServer]_vars

----------------------------------------------------------------------------
(* Properties *)

\* C1: every analysis result of the analyzer, on the normal, enhanced,
\* no-content and failure paths alike, has a relevance score from 0.0 to 10.0.
RelevanceScoreInRange ==
    /\ \A i \in 1..Len(processed) : processed[i].relevance_score \in 0..Pts(100)
    /\ \A i \in 1..Len(analysis_results) :
          analysis_results[i].relevance_score \in 0..Pts(100)
    /\ \A i \in 1..Len(anLog) : anLog[i].first.relevance_score \in 0..Pts(100)
    /\ analysis # None => analysis.first.relevance_score \in 0..Pts(100)

\* An enhanced analysis whose weighted sum exceeds the cap, next to a failed one.
CappedAndFailedAnalyses ==
    /\ Len(processed) = 2
    /\ processed[1].analysis_method = "enhanced"
    /\ processed[1].summary.kind = "generated"
    /\ processed[1].relevance_score = Pts(100)
    /\ RelevanceScoreUncapped(prepared[1].content, args.query_terms,
                              processed[1].summary.hits) > Pts(100)
    /\ processed[2].summary.kind = "error"

\* C2: the stored search_results never hold a url twice, and keep the valid
\* results in the order in which their urls were first returned.
SearchResultsDeduplicated ==
    "list" \in DOMAIN returned =>
        LET FirstAt(u) == CHOOSE k \in 1..Len(returned.list) :
                              /\ returned.list[k].url = u
                              /\ \A m \in 1..(k - 1) : returned.list[m].url # u
        IN  \A i, j \in 1..Len(search_results) :
                i < j => FirstAt(search_results[i].url) < FirstAt(search_results[j].url)

\* C3 (as stated): extract_with_retry never makes more than max_retry_attempts
\* extraction calls for a source.
ExtractionCallsWithinRetryAttempts ==
    /\ extractCalls <= cfg.max_retry_attempts
    /\ \A i \in 1..Len(extractLog) :
          /\ extractLog[i].exts <= cfg.max_retry_attempts
          /\ extractLog[i].attempts <= cfg.max_retry_attempts

\* C3 (amended): extract_with_retry makes at most max(1, max_retry_attempts)
\* extraction attempts for a source, and never more than 2.
ExtractionCallsBounded ==
    /\ extractCalls <= Min(2, Max(1, cfg.max_retry_attempts))
    /\ attempt < Min(2, Max(1, cfg.max_retry_attempts))
    /\ \A i \in 1..Len(extractLog) :
          /\ extractLog[i].exts <= Min(2, Max(1, cfg.max_retry_attempts))
          /\ extractLog[i].attempts <= Min(2, Max(1, cfg.max_retry_attempts))
          /\ extractLog[i].exts <= extractLog[i].attempts

\* A source whose thin first extraction was followed by the deep one.
DeepRetryMade ==
    \E i \in 1..Len(extractLog) :
        /\ extractLog[i].attempts = 2
        /\ extractLog[i].exts = 2
        /\ extractLog[i].first.word_count < cfg.min_word_count

EveryExtractedSourceAnalyzed ==
    pc \in {"synth", "done"} =>
        LET Extracted(e) == e.result # None
            ok == SelectSeq(extractLog, Extracted)
        IN  /\ Len(analysis_results) = Len(ok)
            /\ Len(anLog) = Len(ok)
            /\ \A i \in 1..Len(ok) : anLog[i].url = ok[i].url

\* Two sources, one dropped by the extraction and one extracted by the deep
\* retry, and the analysis phase over.
OneOfTwoSourcesExtracted ==
    /\ pc = "done"
    /\ Len(extractLog) = 2
    /\ Len(analysis_results) = 1
    /\ \E i \in 1..2 : extractLog[i].result # None /\ extractLog[i].attempts = 2

\* C6: a failure of the extraction, of the image extraction, of a source's
\* analysis or of the final summary never stops conduct_research; only a
\* failure of the search does.
OnlySearchFailureAborts ==
    /\ raised \in {"none", "search"}
    /\ pc = "raised" => raised = "search" /\ returned = SearchError

\* A session that returned after an extraction, an analysis and the summary
\* generation each raised.
ReturnedDespiteFailures ==
    /\ pc = "done"
    /\ raised = "none"
    /\ \E i \in 1..Len(extractLog) : extractLog[i].result = None /\ extractLog[i].raised
    /\ \E i \in 1..Len(anLog) : anLog[i].firstRaised
    /\ synthLog # <<>> /\ synthLog[1].raised

\* C7: when the search collaborator raises, the session ends with that
\* failure propagated, having made no browser call and no text-generation call.
SearchFailurePropagates ==
    returned = SearchError =>
        /\ raised = "search"
        /\ pc = "raised"
        /\ navCalls = 0 /\ extractCalls = 0 /\ llmCalls = 0
        /\ extractLog = <<>> /\ analyzed_sources = <<>>

\* C8: an analysis result reports extraction_method "deep" whenever the
\* source's content came from the deep extraction.
DeepExtractionReported ==
    \A i \in 1..Len(anLog) :
        (i <= Len(processed) /\ anLog[i].depth = "deep")
            => processed[i].extraction_method = "deep"

\* C9: when every attempt to generate the final summary has failed, the
\* summary is the fallback report: the "technical difficulties" header, the
\* statistics (source count, finding count, query), and every key finding in
\* full together with its source title.
FallbackReportOnFailure ==
    ( /\ pc = "done"
      /\ synthLog # <<>>
      /\ \A i \in 1..Len(synthLog) : synthLog[i].raised )
    => /\ final_summary.header
       /\ final_summary.stats = [sources |-> Len(analyzed_sources),
                                 findings |-> Len(key_findings), query |-> TRUE]
       /\ Len(final_summary.items) = Len(key_findings)
       /\ \A i \in 1..Len(final_summary.items) :
             /\ final_summary.items[i].finding = key_findings[i].finding
             /\ final_summary.items[i].title = key_findings[i].source_title

\* C10 (as stated): whenever the text-generation service raises during a
\* source's analysis, the source's result is the degraded one: score 1.0,
\* key finding "Analysis failed", an error summary.
AnyLlmFailureDegrades ==
    \A i \in 1..Len(anLog) :
        (anLog[i].firstRaised \/ anLog[i].secondRaised) =>
            /\ processed[i].relevance_score = Pts(10)
            /\ processed[i].key_finding = AnalysisFailed
            /\ processed[i].summary.kind = "error"

\* C10 (amended): the source's result is the degraded one whenever the
\* service raises during the last pass run for the source (the only pass, or
\* the escalated second pass); the source is in the result list either way.
LastPassFailureDegrades ==
    /\ Len(processed) = Len(anLog)
    /\ pc # "analyze" => Len(analysis_results) = Len(prepared)
    /\ \A i \in 1..Len(anLog) :
          LET lastRaised == IF anLog[i].second = None
                            THEN anLog[i].firstRaised
                            ELSE anLog[i].secondRaised
          IN  /\ lastRaised =>
                    /\ processed[i].relevance_score = Pts(10)
                    /\ processed[i].key_finding = AnalysisFailed
                    /\ processed[i].summary.kind = "error"
              /\ anLog[i].firstRaised =>
                    /\ anLog[i].first.relevance_score = Pts(10)
                    /\ anLog[i].first.key_finding = AnalysisFailed
              /\ (~lastRaised /\ prepared[i].content.chars # 0) =>
                    processed[i].summary.kind = "generated"

\* A source whose first pass raised, was escalated, and whose second pass
\* raised too, next to one whose second pass succeeded after a failed first.
SecondPassRaised ==
    /\ \E i \in 1..Len(anLog) :
          anLog[i].firstRaised /\ anLog[i].second # None /\ anLog[i].secondRaised
    /\ \E i \in 1..Len(anLog) :
          anLog[i].firstRaised /\ anLog[i].second # None /\ ~anLog[i].secondRaised

\* C11 (as stated): whatever the relevance_threshold, a source whose analysis
\* failed (score 1.0) is not among the high-relevance sources the report
\* counts, and is among the sources it totals.
DegradedNeverHighRelevance ==
    report # None =>
        /\ report.total = Len(analysis_results)
        /\ report.high =
              Cardinality({ i \in 1..Len(analysis_results) :
                  /\ analysis_results[i].summary.kind # "error"
                  /\ analysis_results[i].relevance_score >= cfg.relevance_threshold })

\* C11 (amended): a source whose analysis failed is among the sources the
\* report totals; it is among the high-relevance sources exactly when
\* relevance_threshold is at most 1.0, and never with a threshold above 1.0.
DegradedHighOnlyUnderLowThreshold ==
    report # None =>
        /\ report.total = Len(analysis_results)
        /\ report.total = Len(prepared)
        /\ report.high =
              Cardinality({ i \in 1..Len(analysis_results) :
                  IF analysis_results[i].summary.kind = "error"
                  THEN cfg.relevance_threshold <= Pts(10)
                  ELSE analysis_results[i].relevance_score >= cfg.relevance_threshold })

\* A report, under the default threshold, over a failed analysis and a
\* high-relevance one.
ReportOverFailedAndHigh ==
    /\ report # None
    /\ cfg.relevance_threshold = Pts(50)
    /\ report.total = 2
    /\ report.high = 1
    /\ \E i \in 1..2 : analysis_results[i].summary.kind = "error"

\* C12: the extraction takes the search results in their order, one after the
\* other, and the prepared sources and the analyses keep that order: of two
\* extracted sources, the one earlier in search_results is analysed earlier
\* and stands earlier in the analyses list.
SourcesProcessedInOrder ==
    LET At(u) == CHOOSE k \in 1..Len(search_results) : search_results[k].url = u
    IN  /\ \A i \in 1..Len(extractLog) : extractLog[i].url = search_results[i].url
        /\ pc = "extract" => srcIdx = Len(extractLog) + (IF pending = None THEN 1 ELSE 0)
        /\ \A i, j \in 1..Len(prepared) :
              i < j => At(prepared[i].url) < At(prepared[j].url)
        /\ \A i \in 1..Len(anLog) : anLog[i].url = prepared[i].url
        /\ Len(processed) = Len(anLog)
        /\ analysis_results # <<>> => analysis_results = processed

\* Two different sources, both extracted and analysed.
TwoSourcesAnalyzed ==
    /\ pc = "done"
    /\ Len(analysis_results) = 2
    /\ anLog[1].url # anLog[2].url
    /\ anLog[1].url = search_results[1].url

\* C13: the phases run strictly one after the other: the text-generation
\* service is not called for a source's analysis before the extraction of
\* every search result is over, nor for the final summary before every
\* extracted source is analysed.
PhasesInSequence ==
    /\ llmCalls > 0 =>
          /\ srcIdx > Len(search_results)
          /\ pending = None
          /\ pc \notin {"search", "extract", "e_search", "e_analysis"}
    /\ synthLog # <<>> =>
          /\ analysis = None
          /\ pc \notin {"search", "extract", "analyze", "e_search", "e_analysis", "e_synthesis"}

\* C14: when the session is cancelled while the analysis phase is at source
\* k, the session's analyses list holds the k-1 analyses finished before.
CancelKeepsFinishedAnalyses ==
    pc = "cancelled" =>
        /\ Len(analysis_results) = anIdx - 1
        /\ analysis_results = processed

\* C15: no operation of the pipeline (the extraction of a source, the image
\* extraction, cleanup) opens or closes the browser's session: the session
\* is active after the step exactly if it was active before it.
SessionLeftAsFound == [][sessionActive' = sessionActive]_vars

\* C16: in the assembled report every analysis stands with the title and the
\* url of the source it was produced from, in the key findings, in the
\* per-source details and in the source table.
ReportPairsAnalysisWithSource ==
    report # None =>
        LET Paired(e) == /\ e.url = prepared[e.analysis].url
                         /\ e.title = prepared[e.analysis].title
        IN  /\ \A i \in 1..Len(analysis_results) :
                  /\ i \in DOMAIN report.details /\ report.details[i].analysis = i
                  /\ i \in DOMAIN report.table /\ report.table[i].analysis = i
            /\ \A i \in DOMAIN report.details : Paired(report.details[i])
            /\ \A i \in DOMAIN report.table : Paired(report.table[i])
            /\ \A k \in DOMAIN report.findings : Paired(report.findings[k])

\* C17: the analysis does not change the source it is given: content,
\* word_count and extraction_depth of every analysed source are those it had
\* when analyze_sources was called, escalation or not.
AnalyzedSourceUnchanged ==
    \A i \in 1..Len(anLog) :
        /\ prepared[i].content = anLog[i].content
        /\ prepared[i].word_count = anLog[i].word_count
        /\ prepared[i].extraction_depth = anLog[i].depth

\* C18: every research session eventually finishes: it returns its result
\* or raises, however the collaborators answer, since the extraction retries
\* at most once per source, the analysis makes at most two passes per source
\* and the final summary is attempted at most max_retries times.
SessionFinishes == <>(pc \in {"done", "raised"})

\* A session that returned after a deep retry of an extraction and a second
\* pass of an analysis.
FinishedAfterRetries ==
    /\ pc = "done"
    /\ final_summary # NoSummary
    /\ \E i \in 1..Len(extractLog) : extractLog[i].attempts = 2
    /\ \E i \in 1..Len(anLog) : anLog[i].escalation # "none"

\* C19: a Config constructed with no arguments has the default values
\* tests/test_config.py asserts: base_url http://localhost:11434, model
\* llama2, temperature 0.7, max_tokens 2048, headless true, timeout 30000,
\* viewport 1280x720, engine duckduckgo, results_limit 10.
DefaultConfigAsTested ==
    (config # None /\ config # ValidationError /\ config.how = "Config()") =>
        /\ config.llm = [base_url |-> "http://localhost:11434", model |-> "llama2",
                         temperature |-> 7, max_tokens |-> 2048]
        /\ config.browser = [headless |-> TRUE, timeout |-> 30000,
                             viewport_width |-> 1280, viewport_height |-> 720]
        /\ config.search = [engine |-> "duckduckgo", results_limit |-> 10]

\* C20: a newly constructed MCP server has no active session and holds no
\* browser instance and no search instance until a session is started.
NewServerHoldsNothing ==
    (server # None /\ toolResult = None) =>
        /\ server._session_active = FALSE
        /\ server.browser = None
        /\ server.search = None

\* C21: the final-summary generation of a session calls the text-generation
\* service at most 3 times, makes no call after one that succeeded, and
\* gives up (returns a text it did not generate) only after 3 calls that all
\* raised.
FinalSummaryAttempts ==
    /\ Len(synthLog) <= MaxRetries
    /\ \A i \in 1..(Len(synthLog) - 1) : synthLog[i].raised
    /\ (pc = "done" /\ synthLog # <<>> /\ synthLog[Len(synthLog)].raised) =>
            Len(synthLog) = MaxRetries

\* C22: the first attempt of the final-summary generation sends the full
\* prompt, every later attempt the short one; the full prompt is sent once.
RetryShrinksPrompt ==
    \A i \in 1..Len(synthLog) :
        synthLog[i].prompt = IF i = 1 THEN "full" ELSE "short"

\* C23: a call of extract_with_retry in whose last attempt the browser failed
\* to start or to navigate, returned an error status or an empty text, or
\* raised, returns None; that attempt is the last one (each attempt makes at
\* most one navigate and one extract call), and the source is not among the
\* prepared sources.  (A call that raised TypeError before its first statement
\* made no attempt.)
FailedAttemptDropsSource ==
    \A i \in 1..Len(extractLog) :
        LET rec == extractLog[i]
        IN  rec.step # "type_error" =>
            /\ rec.navs <= rec.attempts /\ rec.exts <= rec.navs
            /\ rec.step # "ext_ok" =>
                  /\ rec.result = None
                  /\ rec.exts < rec.attempts \/ rec.step \in {"ext_raise", "ext_error", "ext_empty"}
                  /\ \A j \in 1..Len(prepared) : prepared[j].url # rec.url
            /\ rec.first = None => rec.attempts = 1 /\ rec.result = None

\* Both sources dropped, one after a failed navigation and one after an
\* empty page text.
TwoSourcesDropped ==
    /\ Len(extractLog) = 2
    /\ prepared = <<>>
    /\ extractLog[1].step \in {"nav_raise", "nav_error"}
    /\ extractLog[2].step = "ext_empty"

\* C24: extract_with_retry makes a second extraction exactly when the first
\* one returned content of fewer than min_word_count words and attempt 1 is
\* below max_retry_attempts; the first is requested with content_limit and
\* marked normal, the second with deep_content_limit and marked deep; there
\* is no third.
SecondExtractionExactlyWhenThin ==
    \A i \in 1..Len(extractLog) :
        LET rec == extractLog[i]
        IN  rec.step # "type_error" =>
            /\ rec.attempts \in {1, 2}
            /\ rec.attempts = 2 <=>
                  /\ rec.first # None
                  /\ rec.first.word_count < cfg.min_word_count
                  /\ 1 < cfg.max_retry_attempts
            /\ rec.requests[1] = [max_length |-> cfg.content_limit, deep_extraction |-> FALSE]
            /\ rec.first # None => rec.first.extraction_depth = "normal"
            /\ rec.attempts = 2 =>
                  /\ rec.requests[2] = [max_length |-> cfg.deep_content_limit,
                                        deep_extraction |-> TRUE]
                  /\ rec.result # None => rec.result.extraction_depth = "deep"

\* One source extracted a second time, one not although its text is thin
\* (max_retry_attempts below 2) or because its text is long enough.
RetriedAndNotRetried ==
    /\ Len(extractLog) = 2
    /\ extractLog[1].attempts = 2 /\ extractLog[1].result # None
    /\ extractLog[2].attempts = 1 /\ extractLog[2].result # None
    /\ extractLog[2].result.word_count >= cfg.min_word_count

\* C25: extract_with_retry returns the best content it obtained: when the
\* normal attempt obtained content the result is not None and has no fewer
\* words than the content of the normal attempt.
BestExtractionReturned ==
    \A i \in 1..Len(extractLog) :
        LET rec == extractLog[i]
        IN  rec.first # None =>
              /\ rec.result # None
              /\ rec.result.word_count >= rec.first.word_count

\* C26 (as stated): a source gets a second analysis pass exactly when its
\* first pass scored below relevance_threshold or counted fewer than
\* min_word_count words, and max_retry_attempts > 0; no source gets a third.
SecondPassExactlyWhenShort ==
    \A i \in 1..Len(anLog) :
        LET rec == anLog[i]
        IN  /\ rec.second # None <=>
                  /\ \/ rec.first.relevance_score < cfg.relevance_threshold
                     \/ rec.first.word_count < cfg.min_word_count
                  /\ cfg.max_retry_attempts > 0
            /\ rec.calls <= 4

\* C26 (amended): as above for a source whose content is not the empty
\* text; a source with empty content is analysed in one pass.
SecondPassExactlyWhenShortAndNonEmpty ==
    /\ Len(anLog) <= Len(prepared)
    /\ \A i \in 1..Len(anLog) :
        LET rec == anLog[i]
        IN  /\ rec.second # None <=>
                  /\ \/ rec.first.relevance_score < cfg.relevance_threshold
                     \/ rec.first.word_count < cfg.min_word_count
                  /\ cfg.max_retry_attempts > 0
                  /\ rec.content.chars # 0
            /\ rec.second # None <=> rec.escalation # "none"
            /\ rec.calls <= 4

\* Two sources analysed under a configuration with retry budget, the first
\* in two passes, the second, whose content is empty, in one.
EscalatedAndEmptyAnalyzed ==
    /\ Len(anLog) = 2
    /\ cfg.max_retry_attempts > 0
    /\ anLog[1].second # None
    /\ anLog[2].content.chars = 0 /\ anLog[2].second = None

\* C27: an analysis made without escalation records extraction normal and
\* analysis normal; one made by the relevance-driven escalation records
\* analysis enhanced, extraction normal, and the source's content is as
\* before; extraction deep is recorded, with analysis enhanced, exactly for
\* the word-count-driven escalation.
MethodsRecorded ==
    \A i \in 1..Len(anLog) :
        LET rec == anLog[i]
            a == processed[i]
        IN  /\ rec.escalation = "none" =>
                  a.extraction_method = "normal" /\ a.analysis_method = "normal"
            /\ rec.escalation = "relevance" =>
                  /\ a.extraction_method = "normal" /\ a.analysis_method = "enhanced"
                  /\ prepared[i].content = rec.content
                  /\ rec.first.word_count >= cfg.min_word_count
            /\ rec.escalation = "deep" =>
                  /\ a.extraction_method = "deep" /\ a.analysis_method = "enhanced"
                  /\ rec.first.word_count < cfg.min_word_count
            /\ a.extraction_method = "deep" => rec.escalation = "deep"

\* Three kinds of analyses side by side cannot fit two sources: one source
\* escalated for its relevance and one for its word count.
BothEscalationsRan ==
    /\ Len(anLog) = 2
    /\ anLog[1].escalation = "relevance"
    /\ anLog[2].escalation = "deep"

\* C28: the key findings of a report are analyses scoring at least
\* max(3.0, relevance_threshold - 2.0), as many of them as there are up to 6,
\* none of those left out scores higher than a listed one, and they are
\* listed by descending relevance score.
KeyFindingsRanked ==
    report # None =>
        LET score(i) == analysis_results[i].relevance_score
            Eligible == { i \in 1..Len(analysis_results) :
                            score(i) >= Max(Pts(30), cfg.relevance_threshold - Pts(20)) }
            listed == [k \in 1..Len(report.findings) |-> report.findings[k].analysis]
            Listed == { listed[k] : k \in 1..Len(listed) }
        IN  /\ Listed \subseteq Eligible
            /\ Len(listed) = Min(6, Cardinality(Eligible))
            /\ Cardinality(Listed) = Len(listed)
            /\ \A i \in Eligible \ Listed : \A j \in Listed : score(i) <= score(j)
            /\ \A k \in 1..(Len(listed) - 1) : score(listed[k]) >= score(listed[k + 1])

\* C29: the statistics of a report come from the analyses alone: the
\* high-relevance count is the number of analyses with relevance_score >=
\* relevance_threshold (2 for the scores 7.2, 3.1, 8.0, 4.5 at threshold 5.0),
\* the average relevance is their sum divided by their number, and 0 with no
\* division for the empty list, the total of words is the sum of the
\* word counts, and the theme count is the number of distinct themes.
StatisticsFromAnalyses ==
    report # None =>
        LET n == Len(analysis_results)
            scores == [i \in 1..n |-> analysis_results[i].relevance_score]
            words == [i \in 1..n |-> analysis_results[i].word_count]
            avg == report.avg_relevance
        IN  /\ report.high = Cardinality({ i \in 1..n : scores[i] >= cfg.relevance_threshold })
            /\ (scores = <<Pts(72), Pts(31), Pts(80), Pts(45)>>
                   /\ cfg.relevance_threshold = Pts(50)) => report.high = 2
            /\ report.total = n
            /\ avg.den # 0
            /\ avg.num * (IF n = 0 THEN 1 ELSE n) = Sum(scores) * avg.den
            /\ n = 0 => avg.num = 0
            /\ report.total_words = Sum(words)
            /\ report.unique_themes
                 = Cardinality({ t \in {"Solar", "Wind"} :
                                   \E i \in 1..n : \E k \in 1..Len(analysis_results[i].themes) :
                                       analysis_results[i].themes[k] = t })

\* The report over the four analyses scoring 7.2, 3.1, 8.0 and 4.5.
ReportOverFourScores ==
    /\ report # None
    /\ Len(analysis_results) = 4
    /\ [i \in 1..4 |-> analysis_results[i].relevance_score]
         = <<Pts(72), Pts(31), Pts(80), Pts(45)>>
    /\ report.unique_themes = 2

\* C30: the findings given to the generation of the final summary are those
\* of exactly the analyses scoring at least 3.0, in the order of the sources,
\* the first 5 of them at most.
SummaryFindingsFilteredAndCut ==
    \A i \in 1..Len(synthLog) :
        LET given == synthLog[i].findings
            eligible == SelectSeq([j \in 1..Len(analysis_results) |-> j],
                                  LAMBDA j : analysis_results[j].relevance_score >= Pts(30))
        IN  /\ Len(given) <= 5
            /\ given = SubSeq(eligible, 1, Min(5, Len(eligible)))

\* C31: the theme table given to the generation of the final summary counts
\* each theme over the themes of all the analyses of the session, whatever
\* their scores, lists the themes by descending count, and holds at most 5.
ThemeTableOverAllAnalyses ==
    \A i \in 1..Len(synthLog) :
        LET table == synthLog[i].themes
            Occurrences(t) ==
                Sum([j \in 1..Len(analysis_results) |->
                        Cardinality({ k \in 1..Len(analysis_results[j].themes) :
                                        analysis_results[j].themes[k] = t })])
            Mentioned == { t \in {"Solar", "Wind"} : Occurrences(t) > 0 }
        IN  /\ Len(table) = Min(5, Cardinality(Mentioned))
            /\ \A k \in 1..Len(table) :
                  /\ table[k].name \in Mentioned
                  /\ table[k].count = Occurrences(table[k].name)
            /\ \A k \in 1..(Len(table) - 1) : table[k].count >= table[k + 1].count

\* C34: the search collaborator is called once, and the search phase stores
\* min(max_sources, d) results, d being the number of distinct non-empty urls
\* of the list the collaborator returned.
SearchResultsFillMaxSources ==
    /\ searchCalls <= 1
    /\ (returned # None /\ returned # SearchError) =>
          LET results == returned.list
              d == Cardinality({ results[i].url : i \in 1..Len(results) } \ {0})
          IN  /\ searchCalls = 1
              /\ Len(search_results) = Min(args.max_sources, d)

\* C34 (amended): the search collaborator is called once, and the search
\* phase stores one result per distinct non-empty url among the first
\* max_sources entries of the returned list: at most min(max_sources, d)
\* results, d being the number of distinct non-empty urls of the whole list.
SearchResultsFromFirstMaxSources ==
    /\ searchCalls <= 1
    /\ (returned # None /\ returned # SearchError) =>
          LET results == returned.list
              first == 1..Min(args.max_sources, Len(results))
              d == Cardinality({ results[i].url : i \in 1..Len(results) } \ {0})
          IN  /\ searchCalls = 1
              /\ Len(search_results) = Cardinality({ results[i].url : i \in first } \ {0})
              /\ Len(search_results) <= Min(args.max_sources, d)

\* A list whose first max_sources entries hold fewer distinct non-empty urls
\* than the list as a whole: fewer than min(max_sources, d) results stored.
SearchStoredFewerThanAvailable ==
    /\ returned # None /\ returned # SearchError
    /\ searchCalls = 1
    /\ Len(search_results)
         < Min(args.max_sources,
               Cardinality({ returned.list[i].url : i \in 1..Len(returned.list) } \ {0}))

\* C35: no result with an empty url or an empty title is ever among the
\* stored search_results.
StoredResultsHaveUrlAndTitle ==
    \A i \in 1..Len(search_results) :
        search_results[i].url # 0 /\ search_results[i].title # 0

\* C36: image extraction never fails a source: a source whose content was
\* extracted is passed on to the analysis whether extract_images returned
\* images, returned none, or failed inside; no failure of it leaves the
\* session.
ImageFailureKeepsSource ==
    /\ raised # "images"
    /\ \A i \in 1..Len(imageLog) :
          /\ i <= Len(prepared)
          /\ prepared[i].url = imageLog[i].url
    /\ \A i \in 1..Len(extractLog) :
          extractLog[i].result # None =>
              \/ \E k \in 1..Len(prepared) : prepared[k].url = extractLog[i].url
              \/ pending # None /\ pending.url = extractLog[i].url

\* Three outcomes do not fit two sources: the image extraction failed for the
\* first source and found nothing for the second, and both were analysed.
SourcesKeptWithoutImages ==
    /\ Len(imageLog) = 2
    /\ imageLog[1].raised
    /\ ~imageLog[2].raised /\ imageLog[2].found = 0
    /\ Len(analysis_results) = 2

\* C37: every analysis carries relevance_score and word_count; a source with
\* empty content gets score 0.0 and word_count 0 and no call is made to the
\* text-generation service for it; a failure of the service on a non-empty
\* content gets score 1.0 and the word count of the content analysed.
FailureSentinelsDistinct ==
    /\ \A i \in 1..Len(processed) :
          {"relevance_score", "word_count"} \subseteq DOMAIN processed[i]
    /\ \A i \in 1..Len(anLog) :
          LET rec == anLog[i]
          IN  /\ rec.content.chars = 0 =>
                    /\ rec.first.relevance_score = 0 /\ rec.first.word_count = 0
                    /\ rec.calls = 0 /\ ~rec.firstRaised
                    /\ processed[i] = rec.first
              /\ rec.firstRaised =>
                    /\ rec.content.chars # 0
                    /\ rec.first.relevance_score = Pts(10)
                    /\ rec.first.word_count = rec.content.wc
                    /\ rec.calls >= 1
              /\ rec.secondRaised =>
                    /\ rec.second.relevance_score = Pts(10)
                    /\ rec.second.word_count = prepared[i].content.wc

\* A source without content and a source whose analysis failed, analysed one
\* after the other.
EmptyAndFailedAnalyzed ==
    /\ Len(anLog) = 2
    /\ anLog[1].content.chars = 0
    /\ anLog[2].firstRaised /\ anLog[2].second = None
    /\ processed[1].relevance_score = 0 /\ processed[2].relevance_score = Pts(10)

\* C38: the three counts of the relevance distribution partition the
\* analyses: every analysis is counted in exactly one of high, medium and
\* low, and the counts add up to the number of analyses.
DistributionPartitions ==
    shown # None =>
        LET d == shown.distribution
            InHigh(a) == a.relevance_score >= cfg.relevance_threshold
            InLow(a) == a.relevance_score < Pts(30)
        IN  /\ d.high + d.medium + d.low = Len(analysis_results)
            /\ \A i \in 1..Len(analysis_results) :
                  ~(InHigh(analysis_results[i]) /\ InLow(analysis_results[i]))

\* C39: the analysis of one source makes at most 4 calls to the
\* text-generation service, two passes of two prompts at most, so the
\* analysis of n sources makes at most 4*n calls, whatever the service
\* returns or raises.
AnalysisCallsBounded ==
    /\ \A i \in 1..Len(anLog) :
          /\ anLog[i].calls <= 4
          /\ anLog[i].second = None => anLog[i].calls <= 2
    /\ analysis # None => analysis.calls <= 2
    /\ llmCalls = Sum([i \in 1..Len(anLog) |-> anLog[i].calls])
                    + (IF analysis # None THEN analysis.calls ELSE 0)
    /\ llmCalls <= 4 * Len(prepared)

\* Two sources analysed with 4 calls each.
EightCallsForTwoSources ==
    /\ Len(analysis_results) = 2
    /\ llmCalls = 8

\* C32: the relevance score is 10 * clamp(4*co + 4*so + 2*min(wc/100, 1), 0, 1),
\* co and so being the shares of the query's terms found among the words of
\* the content and of the summary, whitespace-separated words compared as
\* wholes without regard to case (a word with a punctuation mark attached is
\* a word of its own), and both 0 for a query without terms.  With q terms, a of them
\* in the content and b in the summary, in thirtieths of a point:
\* score * q = 3 * min(400*(a + b) + 2*q*min(wc, 100), 100*q).
RelevanceScoreFormula ==
    measured # None /\ pc = "score" =>
        LET Same(t, u) == t.word = u.word /\ t.mark = u.mark
            Occurs(t, tokens) == \E i \in 1..Len(tokens) : Same(t, tokens[i])
            query == passage.query
            QueryTerm == { i \in 1..Len(query) : \A j \in 1..(i - 1) : ~Same(query[i], query[j]) }
            q == Cardinality(QueryTerm)
            a == Cardinality({ i \in QueryTerm : Occurs(query[i], passage.content.tokens) })
            b == Cardinality({ i \in QueryTerm : Occurs(query[i], passage.summary) })
            wc == Len(passage.content.tokens) + passage.content.filler
            score == measured.relevance_score
        IN  IF q = 0
            THEN score = 3 * Min(2 * Min(wc, 100), 100)
            ELSE score * q = 3 * Min(400 * (a + b) + 2 * q * Min(wc, 100), 100 * q)

\* The query "Solar wind" scored against the content "solar" and the summary
\* "wind": half of its terms in each, 4*0.5 + 4*0.5 + 2*0.01 clamped to 1.
ScoredAcrossCase ==
    /\ measured # None /\ pc = "score"
    /\ passage.query = << Token("solar", TRUE, FALSE), Token("wind", FALSE, FALSE) >>
    /\ passage.content = [tokens |-> << Token("solar", FALSE, FALSE) >>, filler |-> 0]
    /\ passage.summary = << Token("wind", FALSE, FALSE) >>
    /\ measured.relevance_score = Pts(100)

ActiveIffHandlesSet ==
    session # None =>
        /\ session.call = "idle" =>
              (session.active <=>
                  session.playwright /\ session.browser /\ session.context /\ session.page)
        /\ \A i \in 1..Len(sessionLog) :
              LET e == sessionLog[i]
              IN  /\ (e.op = "start" /\ e.before.active) =>
                        e.status = "already_active" /\ e.after = e.before
                  /\ (e.op = "close" /\ ~e.before.active) =>
                        e.status = "not_active" /\ e.after = e.before
                  /\ e.status = "already_active" => e.op = "start" /\ e.before.active
                  /\ e.status = "not_active" => e.op = "close" /\ ~e.before.active

\* A start that failed, a close of the inactive session, a start that
\* succeeded and a start of the active session, in this order.
StartedAfterFailedStart ==
    /\ session # None /\ session.call = "idle" /\ session.active
    /\ Len(sessionLog) = 4
    /\ sessionLog[1].op = "start" /\ sessionLog[1].status = "error"
    /\ sessionLog[2].status = "not_active"
    /\ sessionLog[3].op = "start" /\ sessionLog[3].status = "success"
    /\ sessionLog[4].status = "already_active"

=============================================================================
